---- MODULE Spec2Model ----
(***************************************************************************)
(* The command-line front end of src/src/argparse.js: the command registry *)
(* (CLI_ARGS), the argument resolver (getCommandArgs), the validator       *)
(* (checkArgs), the option parser (getCLIOpts) and the help formatter      *)
(* (formatHelpString).                                                     *)
(*                                                                         *)
(* A JavaScript string is a sequence of one-character strings, so that     *)
(* startsWith, slice, split and length are computed and not assumed.       *)
(*                                                                         *)
(* op, input, output and pc are the call in progress; heap is what the     *)
(* objects of the module (CLI_ARGS and the maps of defaults of loadConfig) *)
(* hold, which outlives a call.                                            *)
(***************************************************************************)
EXTENDS Integers, Sequences, FiniteSets, TLC

VARIABLES op, input, output, pc, heap

vars == <<op, input, output, pc, heap>>

(***************************************************************************)
(* Bounds of the model.                                                    *)
(***************************************************************************)
\* longest list of command arguments (tokens after the command name)
MaxArgs == 5
\* longest argv handed to getCLIOpts
MaxArgv == 4
\* longest help text (in characters) handed to formatHelpString
MaxHelpLen == 6
\* largest indent handed to formatHelpString
MaxIndent == 2
\* largest column limit handed to formatHelpString
MaxLimit == 5
\* longest parameter list handed to formatCommandHelpLines
MaxParams == 3
\* most calls in one session
MaxCalls == 3

(***************************************************************************)
(* Strings.                                                                *)
(***************************************************************************)
\* String.prototype.startsWith
startsWith(s, prefix) ==
  /\ Len(s) >= Len(prefix)
  /\ SubSeq(s, 1, Len(prefix)) = prefix

\* String.prototype.slice(n) / Array.prototype.slice(n), n >= 0
slice(s, n) == IF n >= Len(s) THEN <<>> ELSE SubSeq(s, n + 1, Len(s))

\* String.prototype.substring(0, n)
substring0(s, n) == IF n >= Len(s) THEN s ELSE SubSeq(s, 1, n)

\* every character of s is in the class
AllIn(s, class) == \A i \in 1..Len(s) : s[i] \in class

Digits == {"0","1","2","3","4","5","6","7","8","9"}
Lower == {"a","b","c","d","e","f","g","h","i","j","k","l","m",
          "n","o","p","q","r","s","t","u","v","w","x","y","z"}
Upper == {"A","B","C","D","E","F","G","H","I","J","K","L","M",
          "N","O","P","Q","R","S","T","U","V","W","X","Y","Z"}
\* [0-9a-f]
HexChars == Digits \cup {"a","b","c","d","e","f"}
\* [0-9a-z_.+-]
NameChars == Digits \cup Lower \cup {"_", ".", "+", "-"}
\* [0-9a-z_+-]
LabelChars == Digits \cup Lower \cup {"_", "+", "-"}
\* [123456789ABCDEFGHJKLMNPQRSTUVWXYZabcdefghijkmnopqrstuvwxyz]
AddressChars == ((Digits \cup Upper \cup Lower) \ {"0", "I", "O", "l"})
\* what the regular expression atom . matches
DotChars(c) == c \notin {"\n", "\r"}

dashdash == <<"-","-">>
s_empty == <<>>
s_help == <<"h","e","l","p">>
s_make_keychain == <<"m","a","k","e","_","k","e","y","c","h","a","i","n">>
s_get_owner_keys == <<"g","e","t","_","o","w","n","e","r","_","k","e","y","s">>
s_get_app_keys == <<"g","e","t","_","a","p","p","_","k","e","y","s">>
s_register_addr == <<"r","e","g","i","s","t","e","r","_","a","d","d","r">>
s_command == <<"c","o","m","m","a","n","d">>
s_backup_phrase == <<"b","a","c","k","u","p","_","p","h","r","a","s","e">>
s_index == <<"i","n","d","e","x">>
s_name_or_id_address == <<"n","a","m","e","_","o","r","_","i","d","_","a","d","d","r","e","s","s">>
s_app_origin == <<"a","p","p","_","o","r","i","g","i","n">>
s_blockstack_id == <<"b","l","o","c","k","s","t","a","c","k","_","i","d">>
s_id_address == <<"i","d","-","a","d","d","r","e","s","s">>
s_payment_key == <<"p","a","y","m","e","n","t","_","k","e","y">>
s_gaia_url_prefix == <<"g","a","i","a","_","u","r","l","_","p","r","e","f","i","x">>
s_zonefile == <<"z","o","n","e","f","i","l","e">>
s_decrypt_keychain == <<"d","e","c","r","y","p","t","_","k","e","y","c","h","a","i","n">>
s_encrypt_keychain == <<"e","n","c","r","y","p","t","_","k","e","y","c","h","a","i","n">>
s_get_address == <<"g","e","t","_","a","d","d","r","e","s","s">>
s_get_payment_key == <<"g","e","t","_","p","a","y","m","e","n","t","_","k","e","y">>
s_encrypted_backup_phrase ==
  <<"e","n","c","r","y","p","t","e","d","_","b","a","c","k","u","p","_","p","h","r","a","s","e">>
s_password == <<"p","a","s","s","w","o","r","d">>
s_private_key == <<"p","r","i","v","a","t","e","_","k","e","y">>
s_12_words_or_ciphertext ==
  <<"1","2","_","w","o","r","d","s","_","o","r","_","c","i","p","h","e","r","t","e","x","t">>
s_integer == <<"i","n","t","e","g","e","r">>
s_name_or_id_address_type ==
  <<"n","a","m","e","-","o","r","-","i","d","-","a","d","d","r","e","s","s">>
s_url == <<"u","r","l">>
s_path == <<"p","a","t","h">>
s_CLI == <<"C","L","I">>
s_Key_Management == <<"K","e","y"," ","M","a","n","a","g","e","m","e","n","t">>
s_Blockstack_ID_Management ==
  <<"B","l","o","c","k","s","t","a","c","k"," ","I","D"," ","M","a","n","a","g","e","m","e","n","t">>
s_segwit_p2sh == <<"s","e","g","w","i","t",":","p","2","s","h",":">>
s_ID == <<"I","D","-">>
s_http == <<"h","t","t","p">>
s_colon_slashes == <<":","/","/">>

(***************************************************************************)
(* The patterns of the registry, as the regular expressions they are.      *)
(***************************************************************************)
\* '^([0-9a-z_.+-]{3,37})$'
NAME_PATTERN(s) == Len(s) >= 3 /\ Len(s) <= 37 /\ AllIn(s, NameChars)

\* '^([0-9a-z_+-]{1,37})\.([0-9a-z_.+-]{3,37})$': the JavaScript string
\* literal '\.' is the one character '.', which in the regular expression is
\* the atom that matches any character but a line terminator.
SUBDOMAIN_PATTERN(s) ==
  \E k \in 1..37 :
    /\ k + 1 <= Len(s)
    /\ AllIn(SubSeq(s, 1, k), LabelChars)
    /\ DotChars(s[k + 1])
    /\ NAME_PATTERN(slice(s, k + 1))

\* `^ID-${ADDRESS_CHARS}$`
ID_ADDRESS_PATTERN(s) ==
  /\ startsWith(s, s_ID)
  /\ Len(s) - 3 >= 1 /\ Len(s) - 3 <= 35
  /\ AllIn(slice(s, 3), AddressChars)

\* "^http[s]?://.+$"
URL_PATTERN(s) ==
  /\ startsWith(s, s_http)
  /\ LET rest == IF Len(s) >= 5 /\ s[5] = "s" /\ startsWith(slice(s, 5), s_colon_slashes)
                 THEN slice(s, 5) ELSE slice(s, 4)
     IN  /\ startsWith(rest, s_colon_slashes)
         /\ Len(rest) >= 4
         /\ \A i \in 4..Len(rest) : DotChars(rest[i])

HexKey_From63(s) == Len(s) >= 63 /\ Len(s) <= 66 /\ AllIn(s, HexChars)

\* [0-9a-f]{64,66}
HexKey(s) == Len(s) >= 64 /\ Len(s) <= 66 /\ AllIn(s, HexChars)

\* '^([0-9a-f]{64,66})$'
PRIVATE_KEY_PATTERN(s) == HexKey(s)

RECURSIVE split(_, _)
\* String.prototype.split on a one-character separator
split(s, sep) ==
  IF \A i \in 1..Len(s) : s[i] # sep THEN << s >>
  ELSE LET k == CHOOSE i \in 1..Len(s) : s[i] = sep /\ \A j \in 1..(i - 1) : s[j] # sep
       IN  << SubSeq(s, 1, k - 1) >> \o split(slice(s, k), sep)

\* '^([0-9]+),([0-9a-f]{64,66},)*([0-9a-f]{64,66})$'
PRIVATE_KEY_MULTISIG_PATTERN(s) ==
  LET parts == split(s, ",")
  IN  /\ Len(parts) >= 2
      /\ Len(parts[1]) >= 1 /\ AllIn(parts[1], Digits)
      /\ \A i \in 2..Len(parts) : HexKey(parts[i])

\* `^segwit:p2sh:([0-9]+),([0-9a-f]{64,66},)*([0-9a-f]{64,66})$`
PRIVATE_KEY_SEGWIT_P2SH_PATTERN(s) ==
  /\ startsWith(s, s_segwit_p2sh)
  /\ PRIVATE_KEY_MULTISIG_PATTERN(slice(s, Len(s_segwit_p2sh)))

\* `${PRIVATE_KEY_PATTERN}|${PRIVATE_KEY_MULTISIG_PATTERN}|${PRIVATE_KEY_SEGWIT_P2SH_PATTERN}`
PRIVATE_KEY_PATTERN_ANY(s) ==
  \/ PRIVATE_KEY_PATTERN(s)
  \/ PRIVATE_KEY_MULTISIG_PATTERN(s)
  \/ PRIVATE_KEY_SEGWIT_P2SH_PATTERN(s)

\* "^[0-9]+$"
DIGITS_PATTERN(s) == Len(s) >= 1 /\ AllIn(s, Digits)

\* "^[^ ]+$"
NO_SPACE_PATTERN(s) == Len(s) >= 1 /\ \A i \in 1..Len(s) : s[i] # " "

\* '.+' (not anchored: some character that is not a line terminator)
ANY_PATTERN(s) == \E i \in 1..Len(s) : DotChars(s[i])

\* new RegExp(pattern).test(s), for the patterns the registry below names
RegExpTest(pattern, s) ==
  CASE pattern = "NAME_PATTERN" -> NAME_PATTERN(s)
    [] pattern = "ID_ADDRESS_PATTERN" -> ID_ADDRESS_PATTERN(s)
    [] pattern = "PRIVATE_KEY_PATTERN_ANY" -> PRIVATE_KEY_PATTERN_ANY(s)
    [] pattern = "URL_PATTERN" -> URL_PATTERN(s)
    [] pattern = "^[0-9]+$" -> DIGITS_PATTERN(s)
    [] pattern = "^[^ ]+$" -> NO_SPACE_PATTERN(s)
    [] pattern = ".+" -> ANY_PATTERN(s)
    [] pattern = "NAME_PATTERN|SUBDOMAIN_PATTERN|ID_ADDRESS_PATTERN" ->
         NAME_PATTERN(s) \/ SUBDOMAIN_PATTERN(s) \/ ID_ADDRESS_PATTERN(s)

(***************************************************************************)
(* The help text of the commands below: the opening sentence of each (the  *)
(* whole text for help, whose text is one sentence).                       *)
(***************************************************************************)
h_decrypt_keychain ==
  <<"D","e","c","r","y","p","t"," ","a","n"," ","e","n","c","r","y","p","t","e","d"," ","b","a",
    "c","k","u","p"," ","p","h","r","a","s","e"," ","w","i","t","h"," ","a"," ","p","a","s","s",
    "w","o","r","d",".">>
h_encrypt_keychain ==
  <<"E","n","c","r","y","p","t"," ","a"," ","1","2","-","w","o","r","d"," ","b","a","c","k","u",
    "p"," ","p","h","r","a","s","e",","," ","w","h","i","c","h"," ","c","a","n"," ","b","e"," ",
    "d","e","c","r","y","p","t","e","d"," ","l","a","t","e","r"," ","w","i","t","h"," ","t","h",
    "e"," ","d","e","c","r","y","p","t","_","b","a","c","k","u","p","_","p","h","r","a","s","e",
    " ","c","o","m","m","a","n","d",".">>
h_get_address ==
  <<"G","e","t"," ","t","h","e"," ","a","d","d","r","e","s","s"," ","o","f"," ","a"," ","p","r",
    "i","v","a","t","e"," ","k","e","y"," ","o","r"," ","m","u","l","t","i","s","i","g"," ","p",
    "r","i","v","a","t","e"," ","k","e","y"," ","b","u","n","d","l","e",".">>
h_get_app_keys ==
  <<"G","e","t"," ","t","h","e"," ","a","p","p","l","i","c","a","t","i","o","n"," ","p","r","i",
    "v","a","t","e"," ","k","e","y"," ","f","r","o","m"," ","a"," ","1","2","-","w","o","r","d",
    " ","b","a","c","k","u","p"," ","p","h","r","a","s","e"," ","a","n","d"," ","a"," ","n","a",
    "m","e"," ","o","r"," ","I","D","-","a","d","d","r","e","s","s",".">>
h_get_owner_keys ==
  <<"G","e","t"," ","t","h","e"," ","l","i","s","t"," ","o","f"," ","o","w","n","e","r"," ","p",
    "r","i","v","a","t","e"," ","k","e","y","s"," ","a","n","d"," ","I","D","-","a","d","d","r",
    "e","s","s","e","s"," ","f","r","o","m"," ","a"," ","1","2","-","w","o","r","d"," ","b","a",
    "c","k","u","p"," ","p","h","r","a","s","e",".">>
h_get_payment_key ==
  <<"G","e","t"," ","t","h","e"," ","p","a","y","m","e","n","t"," ","p","r","i","v","a","t","e",
    " ","k","e","y"," ","f","r","o","m"," ","a"," ","1","2","-","w","o","r","d"," ","b","a","c",
    "k","u","p"," ","p","h","r","a","s","e",".">>
h_help ==
  <<"G","e","t"," ","t","h","e"," ","u","s","a","g","e"," ","s","t","r","i","n","g"," ","f","o",
    "r"," ","a"," ","C","L","I"," ","c","o","m","m","a","n","d">>
h_make_keychain ==
  <<"G","e","n","e","r","a","t","e"," ","t","h","e"," ","o","w","n","e","r"," ","a","n","d"," ",
    "p","a","y","m","e","n","t"," ","p","r","i","v","a","t","e"," ","k","e","y","s",","," ","o",
    "p","t","i","o","n","a","l","l","y"," ","f","r","o","m"," ","a"," ","g","i","v","e","n"," ",
    "1","2","-","w","o","r","d"," ","b","a","c","k","u","p"," ","p","h","r","a","s","e",".">>
h_register_addr ==
  <<"I","f"," ","y","o","u"," ","a","r","e"," ","t","r","y","i","n","g"," ","t","o"," ","r","e",
    "g","i","s","t","e","r"," ","a"," ","n","a","m","e"," ","f","o","r"," ","a","n"," ","*","I",
    "D","-","a","d","d","r","e","s","s","*",","," ","u","s","e"," ","t","h","i","s"," ","c","o",
    "m","m","a","n","d",".","\n","\n","R","e","g","i","s","t","e","r"," ","a"," ","n","a","m",
    "e"," ","t","o"," ","s","o","m","e","o","n","e","'","s"," ","I","D","-","a","d","d","r","e",
    "s","s",".">>

(***************************************************************************)
(* The registry: the commands of the groups CLI and Key Management and one *)
(* command of Blockstack ID Management, with their items, arity bounds,    *)
(* help and group as declared.                                             *)
(***************************************************************************)
CLI_ARGS ==
  [ properties |->
      (s_decrypt_keychain :>
         [ items |-> << [name |-> s_encrypted_backup_phrase,
                         realtype |-> s_encrypted_backup_phrase, pattern |-> "^[^ ]+$"],
                        [name |-> s_password, realtype |-> s_password, pattern |-> ".+"] >>,
           minItems |-> 1, maxItems |-> 2,
           help |-> h_decrypt_keychain, group |-> s_Key_Management ])
   @@ (s_encrypt_keychain :>
         [ items |-> << [name |-> s_backup_phrase, realtype |-> s_backup_phrase,
                         pattern |-> ".+"],
                        [name |-> s_password, realtype |-> s_password, pattern |-> ".+"] >>,
           minItems |-> 1, maxItems |-> 2,
           help |-> h_encrypt_keychain, group |-> s_Key_Management ])
   @@ (s_get_address :>
         [ items |-> << [name |-> s_private_key, realtype |-> s_private_key,
                         pattern |-> "PRIVATE_KEY_PATTERN_ANY"] >>,
           minItems |-> 1, maxItems |-> 1,
           help |-> h_get_address, group |-> s_Key_Management ])
   @@ (s_get_app_keys :>
         [ items |-> << [name |-> s_backup_phrase, realtype |-> s_12_words_or_ciphertext],
                        [name |-> s_name_or_id_address, realtype |-> s_name_or_id_address_type,
                         pattern |-> "NAME_PATTERN|SUBDOMAIN_PATTERN|ID_ADDRESS_PATTERN"],
                        [name |-> s_app_origin, realtype |-> s_url, pattern |-> "URL_PATTERN"] >>,
           minItems |-> 3, maxItems |-> 3,
           help |-> h_get_app_keys, group |-> s_Key_Management ])
   @@ (s_get_owner_keys :>
         [ items |-> << [name |-> s_backup_phrase, realtype |-> s_12_words_or_ciphertext],
                        [name |-> s_index, realtype |-> s_integer, pattern |-> "^[0-9]+$"] >>,
           minItems |-> 1, maxItems |-> 2,
           help |-> h_get_owner_keys, group |-> s_Key_Management ])
   @@ (s_get_payment_key :>
         [ items |-> << [name |-> s_backup_phrase, realtype |-> s_12_words_or_ciphertext] >>,
           minItems |-> 1, maxItems |-> 1,
           help |-> h_get_payment_key, group |-> s_Key_Management ])
   @@ (s_help :>
         [ items |-> << [name |-> s_command, realtype |-> s_command] >>,
           minItems |-> 0, maxItems |-> 1,
           help |-> h_help, group |-> s_CLI ])
   @@ (s_make_keychain :>
         [ items |-> << [name |-> s_backup_phrase, realtype |-> s_12_words_or_ciphertext] >>,
           minItems |-> 0, maxItems |-> 1,
           help |-> h_make_keychain, group |-> s_Key_Management ])
   @@ (s_register_addr :>
         [ items |-> << [name |-> s_blockstack_id, realtype |-> s_blockstack_id,
                         pattern |-> "NAME_PATTERN"],
                        [name |-> s_id_address, realtype |-> s_id_address,
                         pattern |-> "ID_ADDRESS_PATTERN"],
                        [name |-> s_payment_key, realtype |-> s_private_key,
                         pattern |-> "PRIVATE_KEY_PATTERN_ANY"],
                        [name |-> s_gaia_url_prefix, realtype |-> s_url],
                        [name |-> s_zonefile, realtype |-> s_path] >>,
           minItems |-> 4, maxItems |-> 4,
           help |-> h_register_addr, group |-> s_Blockstack_ID_Management ]) ]

\* Object.keys(CLI_ARGS.properties): the commands in declaration order
CommandOrder ==
  << s_decrypt_keychain, s_encrypt_keychain, s_get_address, s_get_app_keys,
     s_get_owner_keys, s_get_payment_key, s_help, s_make_keychain, s_register_addr >>

\* Object.keys(CLI_ARGS.properties), as a set
Commands == DOMAIN CLI_ARGS.properties

\* obj.hasOwnProperty(key)
hasOwnProperty(obj, key) == key \in DOMAIN obj

(***************************************************************************)
(* JavaScript values that may be a string or not.                          *)
(***************************************************************************)
null == [type |-> "null"]
undefined == [type |-> "undefined"]
String(s) == [type |-> "string", val |-> s]

\* a number, an object and an array
Number(n) == [type |-> "number", num |-> n]
Object(props) == [type |-> "object", props |-> props]
Array(items) == [type |-> "array", items |-> items]

\* arr[i] (i is 1-based here): undefined beyond the end of the array
At(arr, i) == IF i \in 1..Len(arr) THEN String(arr[i]) ELSE undefined

\* ToBoolean of null, undefined or a string: the empty string is falsy
Truthy(v) == v.type = "string" /\ Len(v.val) > 0

\* a thrown TypeError, as the outcome of a call
TypeError == [threw |-> "TypeError"]
Threw(r) == "threw" \in DOMAIN r

(***************************************************************************)
(* getCommandArgs: the keyword scan, then the merge.                       *)
(***************************************************************************)
\* a failure of the resolver: the message is `${text}${token}`
ArgError(text, token) == [status |-> FALSE, error |-> <<text, token>>]

IsDuplicate_Never(foundArgs, argName) == FALSE

\* the dup? test of the scan
IsDuplicate(foundArgs, argName) == hasOwnProperty(foundArgs, argName)

\* some declared parameter carries this name (the test of the inner loop)
IsDeclared(commandProps, argName) ==
  \E j \in 1..Len(commandProps) :
    /\ hasOwnProperty(commandProps[j], "name")
    /\ commandProps[j].name = argName

AtEndOfArgs_Never(argsList, i) == FALSE

\* the end of args? test: the keyword at index i (1-based) is the last token
AtEndOfArgs(argsList, i) == i + 1 > Len(argsList)

LookupArgValue_AnyName(commandProps, argsList, i, argName) == At(argsList, i + 1)

\* the value the inner loop leaves in argValue for a keyword that has a
\* following token: that token if the name is declared, null otherwise
LookupArgValue(commandProps, argsList, i, argName) ==
  IF IsDeclared(commandProps, argName) THEN At(argsList, i + 1) ELSE null

\* the test that accepts the keyword: if (argValue)
ValueFound(argValue) == Truthy(argValue)

RECURSIVE ScanKeywords(_, _, _, _, _)
\* the first loop of getCommandArgs from index i (1-based) on
ScanKeywords(commandProps, argsList, i, foundArgs, orderedArgs) ==
  IF i > Len(argsList)
  THEN [status |-> TRUE, foundArgs |-> foundArgs, orderedArgs |-> orderedArgs]
  ELSE IF startsWith(argsList[i], dashdash)
  THEN LET argName == slice(argsList[i], 2)
       IN  IF IsDuplicate(foundArgs, argName)
           THEN ArgError("duplicate argument ", argsList[i])
           ELSE IF IsDeclared(commandProps, argName) /\ AtEndOfArgs(argsList, i)
           THEN ArgError("no value for argument ", argsList[i])
           ELSE LET argValue == LookupArgValue(commandProps, argsList, i, argName)
                IN  IF ValueFound(argValue)
                    THEN ScanKeywords(commandProps, argsList, i + 2,
                                      (argName :> argValue.val) @@ foundArgs, orderedArgs)
                    ELSE ArgError("no such argument ", argsList[i])
  ELSE ScanKeywords(commandProps, argsList, i + 1, foundArgs,
                    Append(orderedArgs, argsList[i]))

TakesPositional_Always(prop, foundArgs) == TRUE

\* the merge takes the next positional token for this parameter
TakesPositional(prop, foundArgs) ==
  \/ ~hasOwnProperty(prop, "name")
  \/ ~hasOwnProperty(foundArgs, prop.name)

RECURSIVE MergeArgs(_, _, _, _, _, _)
\* the second loop of getCommandArgs from parameter i (1-based) on;
\* orderedArgIndex counts the positional tokens already taken
MergeArgs(commandProps, foundArgs, orderedArgs, i, orderedArgIndex, mergedArgs) ==
  IF i > Len(commandProps) THEN mergedArgs
  ELSE IF TakesPositional(commandProps[i], foundArgs)
  THEN IF orderedArgIndex >= Len(orderedArgs)
       THEN mergedArgs
       ELSE MergeArgs(commandProps, foundArgs, orderedArgs, i + 1, orderedArgIndex + 1,
                      Append(mergedArgs, orderedArgs[orderedArgIndex + 1]))
  ELSE MergeArgs(commandProps, foundArgs, orderedArgs, i + 1, orderedArgIndex,
                 Append(mergedArgs, foundArgs[commandProps[i].name]))

\* getCommandArgs(command, argsList)
getCommandArgs(command, argsList) ==
  IF ~hasOwnProperty(CLI_ARGS.properties, command)
  THEN TypeError   \* CLI_ARGS.properties[command] is undefined
  ELSE LET commandProps == CLI_ARGS.properties[command].items
           scan == ScanKeywords(commandProps, argsList, 1, <<>>, <<>>)
       IN  IF ~scan.status THEN scan
           ELSE [status |-> TRUE,
                 arguments |-> MergeArgs(commandProps, scan.foundArgs, scan.orderedArgs,
                                         1, 0, <<>>)]

(***************************************************************************)
(* checkArgs, and the part of ajv.validate(CLI_ARGS, commands) that the    *)
(* keywords of CLI_ARGS exercise: properties, additionalProperties, type,  *)
(* items (a tuple of schemas), minItems, maxItems and pattern.  The        *)
(* keywords name, realtype, help, group and strict are unknown to the      *)
(* validator and ignored.                                                  *)
(***************************************************************************)
ItemValid_AnyValue(itemSchema, value) == TRUE

\* one array element against the schema at its index: type "string" holds
\* of every token, pattern is tested when the schema has one
ItemValid(itemSchema, value) ==
  hasOwnProperty(itemSchema, "pattern") => RegExpTest(itemSchema.pattern, value)

MinItemsValid_Any(arraySchema, arr) == TRUE

\* minItems
MinItemsValid(arraySchema, arr) == Len(arr) >= arraySchema.minItems

MaxItemsValid_Any(arraySchema, arr) == TRUE

\* maxItems
MaxItemsValid(arraySchema, arr) == Len(arr) <= arraySchema.maxItems

\* items: [schema, ...]; elements beyond the listed schemas are not checked
ItemsValid(arraySchema, arr) ==
  \A i \in 1..Len(arr) :
    i <= Len(arraySchema.items) => ItemValid(arraySchema.items[i], arr[i])

\* ajv.validate(schema, commands)
AjvValidate(schema, commands) ==
  \A key \in DOMAIN commands :
    /\ hasOwnProperty(schema.properties, key)     \* additionalProperties: false
    /\ MinItemsValid(schema.properties[key], commands[key])
    /\ MaxItemsValid(schema.properties[key], commands[key])
    /\ ItemsValid(schema.properties[key], commands[key])

\* a failure of checkArgs; the message is the concatenation of `error`
CheckFail(error, command) ==
  [success |-> FALSE, error |-> error, usage |-> TRUE, command |-> command]

IsRecognized_Always(commandName) == TRUE

\* CLI_ARGS.properties.hasOwnProperty(commandName)
IsRecognized(commandName) == hasOwnProperty(CLI_ARGS.properties, commandName)

\* checkArgs(argList)
checkArgs(argList) ==
  IF Len(argList) <= 2
  THEN CheckFail(<<"No command given">>, s_empty)
  ELSE LET commandName == argList[3]
           allCommandArgs == slice(argList, 3)
       IN  IF ~IsRecognized(commandName)
           THEN CheckFail(<<"Unrecognized command '", commandName, "'">>, commandName)
           ELSE LET parsedCommandArgs == getCommandArgs(commandName, allCommandArgs)
                IN  IF Threw(parsedCommandArgs) THEN parsedCommandArgs
                    ELSE IF ~parsedCommandArgs.status
                    THEN CheckFail(parsedCommandArgs.error, commandName)
                    ELSE LET commandArgs == parsedCommandArgs.arguments
                             commands == (commandName :> commandArgs)
                         IN  IF ~AjvValidate(CLI_ARGS, commands)
                             THEN CheckFail(<<"Invalid command arguments">>, commandName)
                             ELSE [success |-> TRUE, command |-> commandName,
                                   args |-> commandArgs]

(***************************************************************************)
(* getCLIOpts.  The flag letters of the default flag string are letters,   *)
(* so Object.keys(optsTable) is the order of first insertion.              *)
(***************************************************************************)
false == [type |-> "boolean", val |-> FALSE]
true == [type |-> "boolean", val |-> TRUE]

\* 'deitUxC:F:B:P:D:G:N:H:T:I:'
DEFAULT_OPTS ==
  <<"d","e","i","t","U","x","C",":","F",":","B",":","P",":","D",":",
    "G",":","N",":","H",":","T",":","I",":">>

\* the value the first loop gives the flag at index i (1-based) of opts
InitialOptValue(opts, i) ==
  IF i + 1 <= Len(opts) /\ opts[i + 1] = ":" THEN null ELSE false

\* optsTable after the first loop: the last entry of a letter decides
InitialOptsTable(opts) ==
  [ letter \in { opts[i] : i \in { j \in 1..Len(opts) : opts[j] # ":" } } |->
      LET last == CHOOSE i \in 1..Len(opts) :
                    /\ opts[i] = letter
                    /\ \A j \in (i + 1)..Len(opts) : opts[j] # letter
      IN  InitialOptValue(opts, last) ]

RECURSIVE OptKeysFrom(_, _, _)
\* Object.keys(optsTable): the letters in the order they were first inserted
OptKeysFrom(opts, i, keys) ==
  IF i > Len(opts) THEN keys
  ELSE IF opts[i] = ":" \/ \E k \in 1..Len(keys) : keys[k] = opts[i]
  THEN OptKeysFrom(opts, i + 1, keys)
  ELSE OptKeysFrom(opts, i + 1, Append(keys, opts[i]))

OptKeys(opts) == OptKeysFrom(opts, 1, <<>>)

\* argvBuff[i] = '' (i is 1-based here): an assignment one past the end
\* appends, any other index replaces
Blank(argvBuff, i) ==
  IF i = Len(argvBuff) + 1 THEN Append(argvBuff, s_empty)
  ELSE [argvBuff EXCEPT ![i] = s_empty]

StopsScan_Never(token) == FALSE

\* the scan for one flag stops at a literal --
StopsScan(token) == token = dashdash

\* the test that takes a match as a boolean switch
IsBooleanSwitch(value) == value = false

RECURSIVE ScanForOpt(_, _, _, _)
\* the inner loop of the second loop, for the flag opt, from index i on
\* (argv holds strings, so the test for null never stops it)
ScanForOpt(opt, i, argvBuff, optsTable) ==
  IF i > Len(argvBuff) THEN [argvBuff |-> argvBuff, optsTable |-> optsTable]
  ELSE IF StopsScan(argvBuff[i]) THEN [argvBuff |-> argvBuff, optsTable |-> optsTable]
  ELSE IF <<"-", opt>> = argvBuff[i]
  THEN IF IsBooleanSwitch(optsTable[opt])
       THEN ScanForOpt(opt, i + 1, Blank(argvBuff, i),
                       [optsTable EXCEPT ![opt] = true])
       ELSE ScanForOpt(opt, i + 1, Blank(Blank(argvBuff, i), i + 1),
                       [optsTable EXCEPT ![opt] = At(argvBuff, i + 1)])
  ELSE ScanForOpt(opt, i + 1, argvBuff, optsTable)

RECURSIVE ScanForOpts(_, _, _, _)
\* the second loop, from the k-th key on
ScanForOpts(keys, k, argvBuff, optsTable) ==
  IF k > Len(keys) THEN [argvBuff |-> argvBuff, optsTable |-> optsTable]
  ELSE LET r == ScanForOpt(keys[k], 1, argvBuff, optsTable)
       IN  \* the scan for one key ends before the scan for the next starts
           IF Len(r.argvBuff) >= 0 THEN ScanForOpts(keys, k + 1, r.argvBuff, r.optsTable)
           ELSE r

InRemainder_NotBlank(token) == Len(token) > 0

\* the test of the third loop
InRemainder(token) == Len(token) > 0 /\ token # dashdash

RECURSIVE RemainingArgv(_, _)
\* the third loop, from index i on
RemainingArgv(argvBuff, i) ==
  IF i > Len(argvBuff) THEN <<>>
  ELSE (IF InRemainder(argvBuff[i]) THEN << argvBuff[i] >> ELSE <<>>)
       \o RemainingArgv(argvBuff, i + 1)

\* getCLIOpts(argv, opts)
getCLIOpts(argv, opts) ==
  LET r == ScanForOpts(OptKeys(opts), 1, argv, InitialOptsTable(opts))
  IN  ("_" :> RemainingArgv(r.argvBuff, 1)) @@ r.optsTable

(***************************************************************************)
(* formatHelpString.                                                       *)
(***************************************************************************)
\* the pad of the first loop: indent spaces
Pad(indent) == [i \in 1..indent |-> " "]

\* arr.filter((word) => word.length > 0)
NonEmptyWords(arr) == SelectSeq(arr, LAMBDA word : Len(word) > 0)

\* linebuf.split('\n').slice(-1)[0]: the text after the last line break
LastLine(linebuf) ==
  LET parts == split(linebuf, "\n") IN parts[Len(parts)]

IsLiteralLine_FourSpacesOnly(words, line) == substring0(line, 4) = <<" ", " ", " ", " ">>

\* the test for a literal line
IsLiteralLine(words, line) ==
  \/ words[1] = <<"$">>
  \/ substring0(line, 4) = <<" ", " ", " ", " ">>

NeedsBreak_Never(linebuf, word, limit) == FALSE

\* the test that starts a new output line before a word
NeedsBreak(linebuf, word, limit) == Len(LastLine(linebuf)) + 1 + Len(word) > limit

RECURSIVE WrapWords(_, _, _, _, _)
\* the loop over the words of one line, from word j (1-based) on
WrapWords(words, j, linebuf, pad, limit) ==
  IF j > Len(words) THEN linebuf
  ELSE IF Len(words[j]) = 0 THEN linebuf \o <<"\n">>     \* explicit line break
  ELSE LET broken == IF NeedsBreak(linebuf, words[j], limit)
                     THEN linebuf \o <<"\n">> \o pad ELSE linebuf
           appended == broken \o words[j] \o <<" ">>
       IN  \* linebuf is computed before the next round starts
           IF Len(appended) > 0 THEN WrapWords(words, j + 1, appended, pad, limit)
           ELSE appended

\* what one round of the loop over the lines appends to buf
FormatLine(pad, limit, line) ==
  LET words == NonEmptyWords(split(line, " "))
  IN  IF Len(words) = 0 THEN <<"\n">>
      ELSE IF IsLiteralLine(words, line) THEN line \o <<"\n">>
      ELSE WrapWords(words, 1, pad, pad, limit) \o <<"\n">>

RECURSIVE Concat(_)
\* the concatenation of a sequence of strings
Concat(strs) == IF strs = <<>> THEN <<>> ELSE Head(strs) \o Concat(Tail(strs))

\* the pieces appended to buf, one for each line of helpString
HelpChunks(indent, limit, helpString) ==
  LET lines == split(helpString, "\n")
  IN  [i \in 1..Len(lines) |-> FormatLine(Pad(indent), limit, lines[i])]

\* formatHelpString(indent, limit, helpString)
formatHelpString(indent, limit, helpString) ==
  Concat(HelpChunks(indent, limit, helpString))

(***************************************************************************)
(* The usage text: formatCommandHelpLines, getCommandGroups,               *)
(* makeAllCommandsList and makeCommandUsageString.                         *)
(***************************************************************************)
s_constructor == <<"c","o","n","s","t","r","u","c","t","o","r">>
s_toString == <<"t","o","S","t","r","i","n","g">>
s_proto == <<"_","_","p","r","o","t","o","_","_">>
s_All_commands == <<"A","l","l"," ","c","o","m","m","a","n","d","s"," ","(","r","u","n"," ","'">>
s_help_COMMAND ==
  <<" ","h","e","l","p"," ","C","O","M","M","A","N","D","'"," ","f","o","r"," ","d","e","t","a",
    "i","l","s",")",":","\n">>
s_Command == <<"C","o","m","m","a","n","d",":"," ">>
s_Usage == <<"U","s","a","g","e",":","\n">>

\* the characters of names, in the order of their code units
CodeUnits ==
  <<" ","$","'","(",")","*","+",",","-",".","/","0","1","2","3","4","5","6","7","8","9",":","A",
    "B","C","D","E","F","G","H","I","J","K","L","M","N","O","P","Q","R","S","T","U","V","W","X",
    "Y","Z","_","a","b","c","d","e","f","g","h","i","j","k","l","m","n","o","p","q","r","s","t",
    "u","v","w","x","y","z">>

CharCode(c) == CHOOSE i \in 1..Len(CodeUnits) : CodeUnits[i] = c

LowerLetters ==
  <<"a","b","c","d","e","f","g","h","i","j","k","l","m","n","o","p","q","r","s","t","u","v","w",
    "x","y","z">>
UpperLetters ==
  <<"A","B","C","D","E","F","G","H","I","J","K","L","M","N","O","P","Q","R","S","T","U","V","W",
    "X","Y","Z">>

\* String.prototype.toUpperCase
toUpperCase(str) ==
  [i \in 1..Len(str) |->
     IF str[i] \in Lower
     THEN UpperLetters[CHOOSE k \in 1..26 : LowerLetters[k] = str[i]]
     ELSE str[i]]

RECURSIVE StringLess(_, _)
\* a < b for strings: the comparison of the default Array.prototype.sort
StringLess(a, b) ==
  IF b = <<>> THEN FALSE
  ELSE IF a = <<>> THEN TRUE
  ELSE IF Head(a) = Head(b) THEN StringLess(Tail(a), Tail(b))
  ELSE CharCode(Head(a)) < CharCode(Head(b))

RECURSIVE InsertSorted(_, _)
InsertSorted(sorted, str) ==
  IF sorted = <<>> THEN << str >>
  ELSE IF StringLess(str, Head(sorted)) THEN << str >> \o sorted
  ELSE << Head(sorted) >> \o InsertSorted(Tail(sorted), str)

RECURSIVE sort(_)
\* Array.prototype.sort() on strings
sort(arr) == IF arr = <<>> THEN <<>> ELSE InsertSorted(sort(Tail(arr)), Head(arr))

RECURSIVE join(_, _)
\* Array.prototype.join
join(arr, sep) ==
  IF arr = <<>> THEN <<>>
  ELSE IF Len(arr) = 1 THEN arr[1]
  ELSE arr[1] \o sep \o join(Tail(arr), sep)

RECURSIVE splitOn(_, _)
\* String.prototype.split on a separator of several characters
splitOn(str, sep) ==
  LET hits == { i \in 1..(Len(str) - Len(sep) + 1) : SubSeq(str, i, i + Len(sep) - 1) = sep }
  IN  IF hits = {} THEN << str >>
      ELSE LET k == CHOOSE i \in hits : \A j \in hits : i <= j
           IN  << SubSeq(str, 1, k - 1) >> \o splitOn(slice(str, k + Len(sep) - 1), sep)

WhiteSpace == {" ", "\n", "\t", "\r"}

\* String.prototype.trim
trim(str) ==
  LET inked == { i \in 1..Len(str) : str[i] \notin WhiteSpace }
  IN  IF inked = {} THEN <<>>
      ELSE SubSeq(str, CHOOSE i \in inked : \A j \in inked : i <= j,
                       CHOOSE i \in inked : \A j \in inked : i >= j)

\* line.replace(/ /g, ', '): the pieces between the spaces, with ', ' put
\* where each space was
replaceSpaces(line) == join(split(line, " "), <<",", " ">>)

\* the members every object inherits from Object.prototype (some of them)
ObjectPrototypeKeys == {s_constructor, s_toString, s_proto}

LookupCommand_None(command) == [found |-> "none"]

\* CLI_ARGS.properties[command]: the own member, else the inherited one,
\* else undefined
LookupCommand(command) ==
  IF hasOwnProperty(CLI_ARGS.properties, command)
  THEN [found |-> "own", info |-> CLI_ARGS.properties[command]]
  ELSE IF command \in ObjectPrototypeKeys THEN [found |-> "inherited"]
  ELSE [found |-> "none"]

\* commandInfo.items: undefined on an inherited member
ItemsOf(commandInfo) ==
  IF commandInfo.found = "own" THEN Array(commandInfo.info.items) ELSE undefined

\* !commandArgs[i].name
LacksName(arg) == "name" \notin DOMAIN arg \/ arg.name = <<>>

\* !commandArgs[i].realtype
LacksRealtype(arg) == "realtype" \notin DOMAIN arg \/ arg.realtype = <<>>

IsRequired_BelowMin(p, commandInfo) ==
  commandInfo.found = "own" /\ p < commandInfo.info.minItems

\* i + 1 <= commandInfo.minItems, for the parameter at p = i + 1; an
\* inherited member has no minItems and the comparison with undefined fails
IsRequired(p, commandInfo) ==
  commandInfo.found = "own" /\ p <= commandInfo.info.minItems

\* the entry of one parameter in the raw usage
RawEntry(p, arg, commandInfo) ==
  IF IsRequired(p, commandInfo) THEN toUpperCase(arg.name) \o <<" ">>
  ELSE <<"[">> \o toUpperCase(arg.name) \o <<"]", " ">>

\* the entry of one parameter in the keyword usage
KwEntry(p, arg, commandInfo) ==
  IF IsRequired(p, commandInfo)
  THEN dashdash \o arg.name \o <<" ">> \o toUpperCase(arg.realtype)
  ELSE <<"[">> \o dashdash \o arg.name \o <<" ">> \o toUpperCase(arg.realtype) \o <<"]">>

\* the Error thrown for an item without a name or a realtype
BugError(field) ==
  [threw |-> "Error", message |-> <<"BUG: command info is missing a field", field>>]

\* formatCommandHelpLines(commandName, commandArgs)
formatCommandHelpLines(commandName, commandArgs) ==
  IF commandArgs.type # "array" THEN TypeError                   \* commandArgs.length
  ELSE
  LET args == commandArgs.items
      commandInfo == LookupCommand(commandName)
      kwPad == [i \in 1..(Len(commandName) + 3) |-> " "]
  IN  IF Len(args) > 0 /\ LacksName(args[1]) THEN BugError("name")
      ELSE IF Len(args) > 0 /\ commandInfo.found = "none" THEN TypeError  \* commandInfo.minItems
      ELSE IF \E i \in 1..Len(args) : LacksName(args[i]) THEN BugError("name")
      ELSE IF \E i \in 1..Len(args) : LacksRealtype(args[i]) THEN BugError("realtype")
      ELSE [ raw |-> <<" ", " ">> \o commandName \o <<" ">> \o
                     Concat([i \in 1..Len(args) |-> RawEntry(i, args[i], commandInfo)]),
             kw |-> <<" ", " ">> \o commandName \o <<" ">> \o
                    Concat([i \in 1..Len(args) |->
                              KwEntry(i, args[i], commandInfo) \o <<"\n">> \o kwPad]) ]

\* Object.assign({}, CLI_ARGS.properties[command], {'command': command})
GroupEntry(command) == CLI_ARGS.properties[command] @@ [command |-> command]

RECURSIVE GroupsAfter(_)
\* groups after the first n commands: the groups in the order of their first
\* command, each with the entries pushed on it
GroupsAfter(n) ==
  IF n = 0 THEN <<>>
  ELSE LET groups == GroupsAfter(n - 1)
           command == CommandOrder[n]
           group == CLI_ARGS.properties[command].group
       IN  IF ~\E g \in 1..Len(groups) : groups[g].group = group
           THEN Append(groups, [group |-> group, entries |-> << GroupEntry(command) >>])
           ELSE [g \in 1..Len(groups) |->
                   IF groups[g].group = group
                   THEN [groups[g] EXCEPT !.entries = Append(@, GroupEntry(command))]
                   ELSE groups[g]]

\* getCommandGroups()
getCommandGroups == GroupsAfter(Len(CommandOrder))

\* groups[groupName]
GroupNamed(groups, groupName) ==
  groups[CHOOSE g \in 1..Len(groups) : groups[g].group = groupName].entries

\* the lines of the commands of one group, wrapped and comma-separated
HelpLineCSV(cmds) ==
  LET helpLineSpaces == formatHelpString(4, 70, join(cmds, <<" ">>))
      lines == splitOn(helpLineSpaces, <<"\n", " ", " ", " ", " ">>)
  IN  <<" ", " ", " ", " ">>
      \o join([i \in 1..Len(lines) |-> replaceSpaces(trim(lines[i]))],
              <<"\n", " ", " ", " ", " ">>)
      \o <<"\n">>

\* what the loop of makeAllCommandsList appends for one group
GroupSection(groups, groupName) ==
  LET entries == GroupNamed(groups, groupName)
      cmds == [j \in 1..Len(entries) |-> entries[j].command]
  IN  <<" ", " ">> \o groupName \o <<":", " ">> \o <<"\n">> \o HelpLineCSV(cmds) \o <<"\n">>

\* makeAllCommandsList(), with process.argv[1] = argv1
makeAllCommandsList(argv1) ==
  LET groups == getCommandGroups
      groupNames == sort([g \in 1..Len(groups) |-> groups[g].group])
  IN  trim(s_All_commands \o argv1 \o s_help_COMMAND
           \o Concat([i \in 1..Len(groupNames) |-> GroupSection(groups, groupNames[i])]))

makeCommandUsageString_Counting(command, argv1) ==
  [text |-> IF op = "session" THEN [n \in 1..Len(output) |-> "."] ELSE <<>>]

\* makeCommandUsageString(command), with process.argv[1] = argv1: the text
\* returned, or what was thrown
makeCommandUsageString(command, argv1) ==
  LET commandInfo == LookupCommand(command)
  IN  IF commandInfo.found = "none" \/ command = s_help
      THEN [text |-> makeAllCommandsList(argv1)]
      ELSE LET help == IF commandInfo.found = "own" THEN String(commandInfo.info.help)
                       ELSE undefined
               cmdFormat == formatCommandHelpLines(command, ItemsOf(commandInfo))
           IN  IF Threw(cmdFormat) THEN cmdFormat
               ELSE IF help.type # "string" THEN TypeError       \* helpString.split
               ELSE [text |-> s_Command \o command \o <<"\n">> \o s_Usage
                                \o cmdFormat.raw \o <<"\n">> \o cmdFormat.kw \o <<"\n">>
                                \o formatHelpString(2, 78, help.val)]

\* USAGE, up to the list of the options
s_USAGE_Usage == <<"U","s","a","g","e",":"," ">>
s_USAGE_options ==
  <<" ","[","o","p","t","i","o","n","s","]"," ","c","o","m","m","a","n","d"," ","[","c","o","m",
    "m","a","n","d"," ","a","r","g","u","m","e","n","t","s","]","\n","O","p","t","i","o","n",
    "s"," ","c","a","n"," ","b","e",":","\n">>
s_Command_reference ==
  <<"\n","\n","C","o","m","m","a","n","d"," ","r","e","f","e","r","e","n","c","e","\n">>
s_Command_group == <<"C","o","m","m","a","n","d"," ","g","r","o","u","p",":"," ">>

\* USAGE, with process.argv[1] = argv1
USAGE(argv1) == s_USAGE_Usage \o argv1 \o s_USAGE_options

\* what the inner loop of makeUsageString appends for one command, or what
\* was thrown
CommandReference(entry) ==
  LET cmdFormat == formatCommandHelpLines(entry.command,
                                          Array(CLI_ARGS.properties[entry.command].items))
  IN  IF Threw(cmdFormat) THEN cmdFormat
      ELSE [text |-> cmdFormat.raw \o <<"\n">> \o cmdFormat.kw \o <<"\n">>
                       \o formatHelpString(4, 76, entry.help) \o <<"\n">>]

\* what the outer loop of makeUsageString appends for one group
GroupReference(groups, groupName) ==
  LET entries == GroupNamed(groups, groupName)
  IN  s_Command_group \o groupName \o <<"\n", "\n">>
      \o Concat([j \in 1..Len(entries) |-> CommandReference(entries[j]).text])
      \o <<"\n">>

\* makeUsageString(usageString), with process.argv[1] = argv1: the text
\* returned, or what was thrown
makeUsageString(argv1) ==
  LET groups == getCommandGroups
      groupNames == sort([g \in 1..Len(groups) |-> groups[g].group])
      thrown == { c \in 1..Len(CommandOrder) :
                    Threw(CommandReference(GroupEntry(CommandOrder[c]))) }
  IN  IF thrown # {}
      THEN CommandReference(GroupEntry(CommandOrder[CHOOSE c \in thrown : TRUE]))
      ELSE [text |-> USAGE(argv1) \o s_Command_reference
                       \o Concat([i \in 1..Len(groupNames) |->
                                    GroupReference(groups, groupNames[i])])]

(***************************************************************************)
(* loadConfig.  A configuration is a map from key to JSON value; the file  *)
(* at configFile is missing, unreadable, or holds a text that JSON.parse   *)
(* rejects or turns into a JSON value.                                     *)
(***************************************************************************)
LOG_CONFIG_DEFAULTS ==
  [ level |-> String("warn"), handleExceptions |-> true, timestamp |-> true,
    stringify |-> true, colorize |-> true, json |-> true ]

CONFIG_DEFAULTS ==
  [ blockstackAPIUrl |-> String("https://core.blockstack.org"),
    blockstackNodeUrl |-> String("https://node.blockstack.org:6263"),
    broadcastServiceUrl |-> String("https://broadcast.blockstack.org"),
    utxoServiceUrl |-> String("https://blockchain.info"),
    logConfig |-> Object(LOG_CONFIG_DEFAULTS) ]

CONFIG_REGTEST_DEFAULTS ==
  [ blockstackAPIUrl |-> String("http://localhost:16268"),
    blockstackNodeUrl |-> String("http://localhost:16264"),
    broadcastServiceUrl |-> String("http://localhost:16269"),
    utxoServiceUrl |-> String("http://localhost:18332"),
    logConfig |-> Object(LOG_CONFIG_DEFAULTS) ]

CONFIG_TESTNET_DEFAULTS ==
  [ blockstackAPIUrl |-> String("http://testnet.blockstack.org:16268"),
    blockstackNodeUrl |-> String("http://testnet.blockstack.org:16264"),
    broadcastServiceUrl |-> String("http://testnet.blockstack.org:16269"),
    utxoServiceUrl |-> String("http://testnet.blockstack.org:18332"),
    logConfig |-> Object([LOG_CONFIG_DEFAULTS EXCEPT !.level = String("debug")]) ]

\* the object {}
EmptyObject == [k \in {} |-> null]

\* the property names of the indexes of a string or an array
IndexKeys == <<"0", "1", "2">>

\* the own enumerable properties Object.assign copies from a source value:
\* none of null, a number or a boolean, the indexed characters of a string,
\* the indexed elements of an array, the members of an object
OwnProperties(source) ==
  CASE source.type = "object" -> source.props
    [] source.type = "array" ->
         [k \in { IndexKeys[i] : i \in 1..Len(source.items) } |->
            source.items[CHOOSE i \in 1..Len(source.items) : IndexKeys[i] = k]]
    [] source.type = "string" ->
         [k \in { IndexKeys[i] : i \in 1..Len(source.val) } |->
            String(<< source.val[CHOOSE i \in 1..Len(source.val) : IndexKeys[i] = k] >>)]
    [] OTHER -> EmptyObject

ObjectAssign_KeepTarget(target, source) ==
  [k \in DOMAIN target \cup DOMAIN OwnProperties(source) |->
     IF k \in DOMAIN target THEN target[k] ELSE OwnProperties(source)[k]]

\* Object.assign(target, source): the target with the properties of source
\* set on it
ObjectAssign(target, source) ==
  [k \in DOMAIN target \cup DOMAIN OwnProperties(source) |->
     IF k \in DOMAIN OwnProperties(source) THEN OwnProperties(source)[k] ELSE target[k]]

\* fs.readFileSync(configFile).toString(): the text, or a thrown error
ReadFileSync(file) ==
  CASE file.kind = "missing" -> [threw |-> "ENOENT"]
    [] file.kind = "unreadable" -> [threw |-> "EACCES"]
    [] OTHER -> [text |-> file.text]

\* JSON.parse(text): the value, or a thrown SyntaxError
JSONParse(text) ==
  IF text.malformed THEN [threw |-> "SyntaxError"] ELSE [value |-> text.value]

IsNetworkType_Any(networkType) == TRUE

\* the negation of the test of the first line of loadConfig
IsNetworkType(networkType) ==
  networkType = "mainnet" \/ networkType = "testnet" \/ networkType = "regtest"

DefaultsFor_Mainnet(networkType) == CONFIG_DEFAULTS

\* the defaults configRet starts from
DefaultsFor(networkType) ==
  IF networkType = "mainnet" THEN ObjectAssign(EmptyObject, Object(CONFIG_DEFAULTS))
  ELSE IF networkType = "regtest"
  THEN ObjectAssign(EmptyObject, Object(CONFIG_REGTEST_DEFAULTS))
  ELSE ObjectAssign(EmptyObject, Object(CONFIG_TESTNET_DEFAULTS))

\* the try block: whatever is thrown in it is swallowed
TryOverlay(configRet, file) ==
  LET read == ReadFileSync(file)
  IN  IF Threw(read) THEN configRet
      ELSE LET configData == JSONParse(read.text)
           IN  IF Threw(configData) THEN configRet
               ELSE ObjectAssign(configRet, configData.value)

\* loadConfig(configFile, networkType), with the file found at configFile
loadConfig(file, networkType) ==
  IF ~IsNetworkType(networkType)
  THEN [threw |-> "Error", message |-> "Unregognized network"]
  ELSE TryOverlay(DefaultsFor(networkType), file)

(***************************************************************************)
(* The objects of the module that outlive a call: the properties of        *)
(* CLI_ARGS and the maps of defaults.  heap holds what they hold; an       *)
(* object created during a call is not in it.  The operations read the     *)
(* registry through CLI_ARGS, which is what heap.CLI_ARGS holds in every   *)
(* state in which no write has landed on it.                               *)
(***************************************************************************)
ModuleObjects ==
  [ CLI_ARGS |-> CLI_ARGS.properties,
    LOG_CONFIG_DEFAULTS |-> LOG_CONFIG_DEFAULTS,
    CONFIG_DEFAULTS |-> CONFIG_DEFAULTS,
    CONFIG_REGTEST_DEFAULTS |-> CONFIG_REGTEST_DEFAULTS,
    CONFIG_TESTNET_DEFAULTS |-> CONFIG_TESTNET_DEFAULTS ]

\* the object a write lands on: {} or new Object(), created during the
\* call; the entry of a command in CLI_ARGS.properties; a map of defaults
NewObject == [held |-> "call"]
RegistryEntry(command) == [held |-> "CLI_ARGS", command |-> command]
DefaultsMap(name) == [held |-> name]

\* the heap after Object.assign(target, source)
AssignTo(h, target, source) ==
  CASE target.held = "call" -> h
    [] target.held = "CLI_ARGS" ->
         [h EXCEPT !.CLI_ARGS[target.command] = ObjectAssign(@, source)]
    [] OTHER -> [h EXCEPT ![target.held] = ObjectAssign(@, source)]

GroupEntryTarget_Entry(command) == RegistryEntry(command)

\* the first argument of Object.assign in getCommandGroups
GroupEntryTarget(command) == NewObject

RECURSIVE HeapAfterGroups(_, _)
\* the heap after getCommandGroups has copied the first n commands
HeapAfterGroups(h, n) ==
  IF n = 0 THEN h
  ELSE LET command == CommandOrder[n]
           before == HeapAfterGroups(h, n - 1)
           target == GroupEntryTarget(command)
       IN  AssignTo(AssignTo(before, target, Object(before.CLI_ARGS[command])),
                    target, Object([command |-> command]))

\* the heap after getCommandGroups()
getCommandGroups_Heap(h) == HeapAfterGroups(h, Len(CommandOrder))

\* the map of defaults loadConfig copies for a network type
DefaultsName(networkType) ==
  IF networkType = "mainnet" THEN "CONFIG_DEFAULTS"
  ELSE IF networkType = "regtest" THEN "CONFIG_REGTEST_DEFAULTS"
  ELSE "CONFIG_TESTNET_DEFAULTS"

ConfigRetTarget_Defaults(networkType) == DefaultsMap(DefaultsName(networkType))

\* the first argument of Object.assign where configRet is set
ConfigRetTarget(networkType) == NewObject

\* the heap after loadConfig(configFile, networkType)
loadConfig_Heap(h, file, networkType) ==
  IF ~IsNetworkType(networkType) THEN h
  ELSE LET configRet == ConfigRetTarget(networkType)
           copied == AssignTo(h, configRet, Object(h[DefaultsName(networkType)]))
           read == ReadFileSync(file)
       IN  IF Threw(read) THEN copied
           ELSE LET configData == JSONParse(read.text)
                IN  IF Threw(configData) THEN copied
                    ELSE AssignTo(copied, configRet, configData.value)

\* what loadConfig(configFile, networkType) returns when the maps of
\* defaults hold what h holds
loadConfig_From(h, file, networkType) ==
  IF ~IsNetworkType(networkType)
  THEN [threw |-> "Error", message |-> "Unregognized network"]
  ELSE TryOverlay(ObjectAssign(EmptyObject, Object(h[DefaultsName(networkType)])), file)

(***************************************************************************)
(* The inputs the operations are applied to.                               *)
(***************************************************************************)
t_abc == <<"a","b","c">>
t_7 == <<"7">>
t_url == <<"h","t","t","p",":","/","/","h">>
t_ID_a == <<"I","D","-","a">>
t_key64 == [i \in 1..64 |-> "a"]
t_key63 == [i \in 1..63 |-> "a"]
t_key64g == [i \in 1..64 |-> IF i = 64 THEN "g" ELSE "a"]
t_bogus == <<"-","-","b","o","g","u","s">>
t_node == <<"n","o","d","e">>
t_cli == <<"c","l","i">>
t_nosuch == <<"n","o","s","u","c","h">>

\* the keyword token of a parameter name
Keyword(name) == dashdash \o name

\* the tokens tried after each command: keywords of declared and undeclared
\* names, the bare --, the empty string, and values that do and do not
\* match the patterns of the command
TokensFor(command) ==
  CASE command = s_help ->
         {s_empty, t_abc, dashdash, Keyword(s_command), t_bogus}
    [] command = s_make_keychain ->
         {s_empty, t_abc, t_7, Keyword(s_backup_phrase), t_bogus}
    [] command = s_get_owner_keys ->
         {s_empty, t_7, Keyword(s_index), Keyword(s_backup_phrase), t_bogus}
    [] command = s_get_app_keys ->
         {s_empty, t_abc, t_url, Keyword(s_name_or_id_address), t_bogus}
    [] command = s_register_addr ->
         {s_empty, t_abc, t_ID_a, t_key64, Keyword(s_zonefile)}
    [] command = s_get_address ->
         {t_key64, t_key63, t_key64g, Keyword(s_private_key)}
    [] OTHER -> {t_abc, t_bogus}

(***************************************************************************)
(* The state: one call of one operation.  Init draws the operation and its *)
(* arguments; the action of the operation applies it (pc goes from "call"  *)
(* to "done") and leaves what it returned in output.                       *)
(***************************************************************************)
Pending == [pending |-> TRUE]

\* the lists of at most n tokens over S, one length at a time
ListsOver(S, n) == { [1..k -> S] : k \in 0..n }

InitGetCommandArgs ==
  /\ op = "getCommandArgs"
  /\ \E command \in Commands :
       \E lists \in ListsOver(TokensFor(command), MaxArgs) :
         \E argsList \in lists :
           input = [command |-> command, argsList |-> argsList]
  /\ output = Pending
  /\ pc = "call"
  /\ heap = ModuleObjects

\* a call of getCommandArgs(command, argsList) on a command of the registry
CallGetCommandArgs ==
  /\ op = "getCommandArgs" /\ pc = "call"
  /\ output' = getCommandArgs(input.command, input.argsList)
  /\ pc' = "done"
  /\ UNCHANGED <<op, input>>
  /\ UNCHANGED heap

\* the argument resolver alone
SpecResolver == InitGetCommandArgs /\ [][CallGetCommandArgs]_vars

(***************************************************************************)
(* What the claims about the resolver speak of, stated on the token list   *)
(* alone.  A head is a token the left-to-right reading starts at: the      *)
(* first token, the token after a positional head, and the token two after *)
(* a keyword head (whose value lies between).                              *)
(***************************************************************************)
IsKeywordToken(t) == Len(t) >= 2 /\ t[1] = "-" /\ t[2] = "-"
\* a --name token that does carry a name
IsNamedKeyword(t) == IsKeywordToken(t) /\ Len(t) > 2
NameOf(t) == SubSeq(t, 3, Len(t))

RECURSIVE HeadsFrom(_, _)
HeadsFrom(toks, i) ==
  IF i > Len(toks) THEN {}
  ELSE {i} \cup HeadsFrom(toks, IF IsKeywordToken(toks[i]) THEN i + 2 ELSE i + 1)

Heads(toks) == HeadsFrom(toks, 1)
KeywordHeads(toks) == { i \in Heads(toks) : IsKeywordToken(toks[i]) }
PositionalHeads(toks) == Heads(toks) \ KeywordHeads(toks)

ParamNames(props) == { props[j].name : j \in 1..Len(props) }

\* an earlier keyword head carries the same name as the one at i
RepeatsEarlier(toks, i) ==
  \E h \in KeywordHeads(toks) : h < i /\ NameOf(toks[h]) = NameOf(toks[i])

\* the keyword head at h is a pair the resolver accepts
AcceptedPair(props, toks, h) ==
  /\ NameOf(toks[h]) \in ParamNames(props)
  /\ h + 1 <= Len(toks)
  /\ toks[h + 1] # <<>>
  /\ ~RepeatsEarlier(toks, h)

\* no token before head i makes the resolver fail
CleanBefore(props, toks, i) ==
  \A h \in KeywordHeads(toks) : h < i => AcceptedPair(props, toks, h)

\* the i-th element (1-based) of a set of indexes, in increasing order
NthOf(S, n) == CHOOSE i \in S : Cardinality({ j \in S : j < i }) = n - 1

ResolverDone == op = "getCommandArgs" /\ pc = "done"
InProps == CLI_ARGS.properties[input.command].items
InToks == input.argsList

\* parameter p is supplied by a keyword head
SuppliedByKeyword(props, toks, p) ==
  \E h \in KeywordHeads(toks) : NameOf(toks[h]) = props[p].name

\* the value the claims expect at parameter p of a full vector
ExpectedArg(props, toks, p) ==
  IF SuppliedByKeyword(props, toks, p)
  THEN toks[(CHOOSE h \in KeywordHeads(toks) : NameOf(toks[h]) = props[p].name) + 1]
  ELSE toks[NthOf(PositionalHeads(toks),
                  Cardinality({ q \in 1..p : ~SuppliedByKeyword(props, toks, q) }))]

\* no keyword is value-less (last token), undeclared or repeated, and the
\* positional tokens suffice for the parameters no keyword supplies
WellFormedArgs(props, toks) ==
  /\ \A h \in KeywordHeads(toks) :
       /\ h + 1 <= Len(toks)
       /\ NameOf(toks[h]) \in ParamNames(props)
       /\ ~RepeatsEarlier(toks, h)
  /\ Cardinality(PositionalHeads(toks)) >=
       Cardinality({ p \in 1..Len(props) : ~SuppliedByKeyword(props, toks, p) })

\* C1: when the tokens hold no duplicate, undeclared or value-less --name
\* and the positional tokens suffice, getCommandArgs returns status true
\* with the full vector in declared order: keyword values in their slots,
\* positional tokens in the remaining slots in their original order.
C1_ResolvesWellFormedArgs ==
  (ResolverDone /\ WellFormedArgs(InProps, InToks)) =>
    output = [status |-> TRUE,
              arguments |-> [p \in 1..Len(InProps) |-> ExpectedArg(InProps, InToks, p)]]

\* C2 as claimed: the same --name token at any two positions gives the
\* duplicate-argument failure.
C2_AnyRepeatIsDuplicate ==
  (ResolverDone /\ \E i, j \in 1..Len(InToks) :
                     i < j /\ IsNamedKeyword(InToks[i]) /\ InToks[i] = InToks[j]) =>
    (~output.status /\ output.error[1] = "duplicate argument ")

\* C2 (amended): when the reading reaches, with no failure before it, a
\* --name head whose name an earlier accepted pair carries, getCommandArgs
\* returns the duplicate-argument failure for that token.
C2_RepeatedHeadIsDuplicate ==
  ResolverDone =>
    \A j \in KeywordHeads(InToks) :
      (CleanBefore(InProps, InToks, j) /\ RepeatsEarlier(InToks, j)) =>
        output = ArgError("duplicate argument ", InToks[j])

C2_Witness ==
  /\ ResolverDone
  /\ \E j \in KeywordHeads(InToks) :
       /\ CleanBefore(InProps, InToks, j) /\ RepeatsEarlier(InToks, j)
       /\ j < Len(InToks)
  /\ ~output.status /\ output.error[1] = "duplicate argument "

\* C3 as claimed: a token list that ends in a --name token gives the
\* missing-value failure, whether or not the name is declared.
C3_TrailingKeywordIsMissingValue ==
  (ResolverDone /\ Len(InToks) > 0 /\ IsNamedKeyword(InToks[Len(InToks)])) =>
    output = ArgError("no value for argument ", InToks[Len(InToks)])

\* C3 (amended): when the last token is a --name head reached with no
\* failure before it and its name is not already captured, getCommandArgs
\* returns the missing-value failure if the name is declared and the
\* unknown-argument failure if it is not.
C3_TrailingHeadFails ==
  (/\ ResolverDone
   /\ Len(InToks) \in KeywordHeads(InToks)
   /\ CleanBefore(InProps, InToks, Len(InToks))
   /\ ~RepeatsEarlier(InToks, Len(InToks))) =>
    output = ArgError(IF NameOf(InToks[Len(InToks)]) \in ParamNames(InProps)
                      THEN "no value for argument " ELSE "no such argument ",
                      InToks[Len(InToks)])

C3_Witness ==
  /\ ResolverDone
  /\ Len(InToks) \in KeywordHeads(InToks)
  /\ Len(InToks) > 1
  /\ CleanBefore(InProps, InToks, Len(InToks))
  /\ NameOf(InToks[Len(InToks)]) \in ParamNames(InProps)
  /\ ~output.status /\ output.error[1] = "no value for argument "

\* C4 as claimed: a --name token followed by a value, whose name matches no
\* declared parameter, gives the unknown-argument failure, never a success.
C4_UndeclaredKeywordIsUnknown ==
  (ResolverDone /\ \E i \in 1..(Len(InToks) - 1) :
                     /\ IsNamedKeyword(InToks[i])
                     /\ NameOf(InToks[i]) \notin ParamNames(InProps)) =>
    (~output.status /\ output.error[1] = "no such argument ")

\* C4 (amended): when the reading reaches, with no failure before it, a
\* --name head that is followed by a token and whose name matches no
\* declared parameter, getCommandArgs returns the unknown-argument failure
\* for that token.
C4_UndeclaredHeadIsUnknown ==
  ResolverDone =>
    \A j \in KeywordHeads(InToks) :
      (/\ CleanBefore(InProps, InToks, j)
       /\ j < Len(InToks)
       /\ NameOf(InToks[j]) \notin ParamNames(InProps)) =>
        output = ArgError("no such argument ", InToks[j])

C4_Witness ==
  /\ ResolverDone
  /\ \E j \in KeywordHeads(InToks) :
       /\ CleanBefore(InProps, InToks, j)
       /\ 1 < j /\ j < Len(InToks)
       /\ IsNamedKeyword(InToks[j])
       /\ InToks[j + 1] # <<>> /\ ~IsKeywordToken(InToks[j + 1])
       /\ NameOf(InToks[j]) \notin ParamNames(InProps)
  /\ ~output.status /\ output.error[1] = "no such argument "

\* the parameters of the returned vector that no keyword supplies
EmittedPositional(props, toks, vector) ==
  { p \in 1..Len(vector) : ~SuppliedByKeyword(props, toks, p) }

\* the index of the parameter a name declares
ParamIndex(props, name) == CHOOSE p \in 1..Len(props) : props[p].name = name

\* C24: in the merge, emitting a keyword-supplied parameter consumes no
\* positional token: the emitted parameters without a keyword value are no
\* more than the positional tokens, and the k-th of them in declared order
\* holds the k-th positional token.
C24_KeywordConsumesNoPositional ==
  (ResolverDone /\ output.status) =>
    LET taken == EmittedPositional(InProps, InToks, output.arguments)
    IN  /\ Cardinality(taken) <= Cardinality(PositionalHeads(InToks))
        /\ \A p \in taken :
             output.arguments[p] =
               InToks[NthOf(PositionalHeads(InToks), Cardinality({ q \in taken : q <= p }))]

C24_Witness ==
  /\ ResolverDone
  /\ input.command = s_get_owner_keys
  /\ InToks = << Keyword(s_backup_phrase), t_7, s_empty, t_7 >>
  /\ output = [status |-> TRUE, arguments |-> << t_7, s_empty >>]

\* C25: when getCommandArgs returns status true, the value of every
\* --name value pair is in the returned vector at the index of the
\* parameter it names.
C25_KeywordValuesAreKept ==
  (ResolverDone /\ output.status) =>
    \A h \in KeywordHeads(InToks) :
      LET p == ParamIndex(InProps, NameOf(InToks[h]))
      IN  p <= Len(output.arguments) /\ output.arguments[p] = InToks[h + 1]

\* C27: the no-such-argument failure names a --name token whose name no
\* parameter of the command declares.
C27_UnknownOnlyForUndeclared ==
  (ResolverDone /\ ~output.status /\ output.error[1] = "no such argument ") =>
    NameOf(output.error[2]) \notin ParamNames(InProps)

(***************************************************************************)
(* checkArgs on process.argv: node, the script, then the command and its   *)
(* arguments.                                                              *)
(***************************************************************************)
\* the command tokens tried: every command of the registry, a name that is
\* none, and the empty string
CommandTokens == Commands \cup {t_nosuch, s_empty}

InitCheckArgs ==
  /\ op = "checkArgs"
  /\ \/ input \in { [argList |-> l] : l \in {<<>>, <<t_node>>, <<t_node, t_cli>>} }
     \/ \E command \in CommandTokens :
          \E lists \in ListsOver(TokensFor(command), MaxArgs) :
            \E argsList \in lists :
              input = [argList |-> <<t_node, t_cli, command>> \o argsList]
  /\ output = Pending
  /\ pc = "call"
  /\ heap = ModuleObjects

\* a call of checkArgs(argList)
CallCheckArgs ==
  /\ op = "checkArgs" /\ pc = "call"
  /\ output' = checkArgs(input.argList)
  /\ pc' = "done"
  /\ UNCHANGED <<op, input>>
  /\ UNCHANGED heap

\* the validator alone
SpecValidator == InitCheckArgs /\ [][CallCheckArgs]_vars

ValidatorDone == op = "checkArgs" /\ pc = "done"
HasCommand == Len(input.argList) > 2
InCommand == input.argList[3]
InCommandArgs == SubSeq(input.argList, 4, Len(input.argList))
InCommandSpec == CLI_ARGS.properties[InCommand]
\* the command is in the registry and its arguments resolve
Resolves == HasCommand /\ InCommand \in Commands
            /\ getCommandArgs(InCommand, InCommandArgs).status
Resolved == getCommandArgs(InCommand, InCommandArgs).arguments

\* the length of the vector is within the arity bounds of the command
ArityHolds(spec, vector) ==
  spec.minItems <= Len(vector) /\ Len(vector) <= spec.maxItems

\* every value matches the pattern of the parameter at its index
PatternsHold(spec, vector) ==
  \A i \in 1..Len(vector) :
    (i <= Len(spec.items) /\ "pattern" \in DOMAIN spec.items[i]) =>
      RegExpTest(spec.items[i].pattern, vector[i])

\* C6: when the command-args resolve, checkArgs returns success if and only
\* if the resolved vector is within [minItems, maxItems] and every value
\* matches the pattern of its parameter; on success the returned args are
\* the resolved vector.  Without a command of the registry it fails.
C6_AcceptsIffArityAndPatterns ==
  ValidatorDone =>
    /\ Resolves =>
         /\ output.success <=> (/\ ArityHolds(InCommandSpec, Resolved)
                                /\ PatternsHold(InCommandSpec, Resolved))
         /\ output.success => (output.args = Resolved /\ output.command = InCommand)
    /\ (~HasCommand \/ InCommand \notin Commands) => ~output.success

C6_Witness ==
  /\ ValidatorDone /\ Resolves
  /\ output.success
  /\ Len(output.args) = 3
  /\ \E h \in KeywordHeads(InCommandArgs) : TRUE

C6_WitnessRejected ==
  /\ ValidatorDone /\ Resolves
  /\ ArityHolds(InCommandSpec, Resolved)
  /\ ~PatternsHold(InCommandSpec, Resolved)
  /\ ~output.success

\* C7: a resolved vector shorter than minItems or longer than maxItems
\* yields the 'Invalid command arguments' failure, and a success never
\* carries a vector outside [minItems, maxItems].
C7_RejectsOutsideArity ==
  ValidatorDone =>
    /\ (Resolves /\ ~ArityHolds(InCommandSpec, Resolved)) =>
         output = CheckFail(<<"Invalid command arguments">>, InCommand)
    /\ (HasCommand /\ output.success) =>
         /\ Len(output.args) >= CLI_ARGS.properties[output.command].minItems
         /\ Len(output.args) <= CLI_ARGS.properties[output.command].maxItems

C7_Witness ==
  /\ ValidatorDone /\ Resolves
  /\ Len(Resolved) > InCommandSpec.maxItems
  /\ PatternsHold(InCommandSpec, Resolved)
  /\ Len(InCommandSpec.items) # InCommandSpec.maxItems
  /\ ~output.success

C7_WitnessShort ==
  /\ ValidatorDone /\ Resolves
  /\ Len(Resolved) < InCommandSpec.minItems
  /\ ~output.success

\* C8: checkArgs raises no exception, and every failure it returns has
\* success false, usage true and command equal to the command token (the
\* empty string when there is none).
C8_FailuresCarryUsageAndCommand ==
  ValidatorDone =>
    /\ ~Threw(output)
    /\ ~output.success =>
         /\ output.usage = TRUE
         /\ output.command = (IF HasCommand THEN InCommand ELSE s_empty)

C8_Witness ==
  /\ ValidatorDone
  /\ HasCommand /\ InCommand \in Commands
  /\ ~output.success
  /\ output.error[1] = "no such argument "
  /\ output.usage /\ output.command = InCommand

C8_WitnessUnrecognized ==
  /\ ValidatorDone
  /\ HasCommand /\ InCommand = t_nosuch
  /\ ~output.success /\ output.usage /\ output.command = t_nosuch

\* the parameters of semantic type private_key
PrivateKeyParams(spec) ==
  { p \in 1..Len(spec.items) : spec.items[p].realtype = s_private_key }

\* every value but the one at p matches the pattern of its parameter
OthersHold(spec, vector, p) ==
  \A i \in (1..Len(vector)) \ {p} :
    (i <= Len(spec.items) /\ "pattern" \in DOMAIN spec.items[i]) =>
      RegExpTest(spec.items[i].pattern, vector[i])

\* C14: for a parameter of semantic type private_key, a value of 64
\* characters all in [0-9a-f] is accepted (the call succeeds when the arity
\* and the other values are in order), and a value of 63 such characters or
\* of 64 characters with one outside [0-9a-f] gives the 'Invalid command
\* arguments' failure.
C14_PrivateKeyIs64Hex ==
  (ValidatorDone /\ Resolves) =>
    \A p \in PrivateKeyParams(InCommandSpec) :
      p <= Len(Resolved) =>
        LET v == Resolved[p]
        IN  /\ (/\ Len(v) = 64 /\ AllIn(v, HexChars)
                /\ ArityHolds(InCommandSpec, Resolved)
                /\ OthersHold(InCommandSpec, Resolved, p)) =>
                 (output.success /\ output.args[p] = v)
            /\ ((Len(v) = 63 /\ AllIn(v, HexChars)) \/ (Len(v) = 64 /\ ~AllIn(v, HexChars))) =>
                 output = CheckFail(<<"Invalid command arguments">>, InCommand)

C14_Witness ==
  /\ ValidatorDone /\ Resolves
  /\ InCommand = s_get_address
  /\ Resolved = << t_key64 >>
  /\ output.success

C14_WitnessRejected ==
  /\ ValidatorDone /\ Resolves
  /\ InCommand = s_get_address
  /\ Resolved = << t_key63 >>
  /\ output = CheckFail(<<"Invalid command arguments">>, s_get_address)

\* C20: checkArgs does not return success when the value resolved for a
\* parameter declared without a pattern is the empty string.
C20_PatternlessRejectsEmpty ==
  (ValidatorDone /\ Resolves) =>
    \A p \in 1..Len(Resolved) :
      (/\ p <= Len(InCommandSpec.items)
       /\ "pattern" \notin DOMAIN InCommandSpec.items[p]
       /\ Resolved[p] = s_empty) => ~output.success

\* the values the command-args supply: positional tokens and --name value
\* pairs
SuppliedValues(toks) == Cardinality(PositionalHeads(toks)) + Cardinality(KeywordHeads(toks))

\* C26: checkArgs never returns success when the command-args supply more
\* values than the maxItems of the command.
C26_SurplusValuesAreRejected ==
  (ValidatorDone /\ HasCommand /\ InCommand \in Commands /\ output.success) =>
    SuppliedValues(InCommandArgs) <= InCommandSpec.maxItems

\* the keyword heads the resolver does not accept
OffendingHeads(props, toks) == { h \in KeywordHeads(toks) : ~AcceptedPair(props, toks, h) }
ResolverErrors == {"duplicate argument ", "no value for argument ", "no such argument "}

\* C28: checkArgs reports one failure, the first of: no command; command
\* not in the registry; the resolver failure of the leftmost --name token
\* the resolver does not accept; invalid arguments.  The arguments are
\* validated only when the resolver accepted every --name token.
C28_FailuresInFixedOrder ==
  ValidatorDone =>
    IF ~HasCommand THEN output = CheckFail(<<"No command given">>, s_empty)
    ELSE IF InCommand \notin Commands
    THEN output = CheckFail(<<"Unrecognized command '", InCommand, "'">>, InCommand)
    ELSE LET offending == OffendingHeads(InCommandSpec.items, InCommandArgs)
         IN  IF offending # {}
             THEN /\ ~output.success
                  /\ output.command = InCommand
                  /\ output.error[1] \in ResolverErrors
                  /\ output.error[2] = InCommandArgs[NthOf(offending, 1)]
             ELSE \/ output = CheckFail(<<"Invalid command arguments">>, InCommand)
                  \/ output = [success |-> TRUE, command |-> InCommand, args |-> Resolved]

\* an undeclared --name after a value that breaks the pattern of its parameter
C28_Witness ==
  /\ ValidatorDone
  /\ input.argList = << t_node, t_cli, s_get_owner_keys, t_7, s_empty, t_bogus, t_7 >>
  /\ ~PatternsHold(InCommandSpec, << t_7, s_empty >>)
  /\ output = CheckFail(<<"no such argument ", t_bogus>>, s_get_owner_keys)

\* C30: no command declares more parameters than its maxItems, so an
\* invocation that supplies every declared parameter with values matching
\* the patterns is accepted.
C30_EveryParameterCanBeSupplied ==
  (ValidatorDone /\ HasCommand /\ InCommand \in Commands) =>
    /\ Len(InCommandSpec.items) <= InCommandSpec.maxItems
    /\ (/\ Resolves
        /\ Len(Resolved) = Len(InCommandSpec.items)
        /\ PatternsHold(InCommandSpec, Resolved)) => output.success

(***************************************************************************)
(* getCLIOpts on argv lists of flag tokens, --, the empty string and a     *)
(* plain token, under the default flag string and two short ones.          *)
(***************************************************************************)
t_d == <<"-","d">>
t_C == <<"-","C">>
t_z == <<"-","z">>
ArgvTokens == {t_d, t_C, t_z, dashdash, s_empty, t_abc}
OptStrings == {DEFAULT_OPTS, <<"d","C",":">>, <<"C",":","d">>}

InitGetCLIOpts ==
  /\ op = "getCLIOpts"
  /\ \E opts \in OptStrings :
       \E lists \in ListsOver(ArgvTokens, MaxArgv) :
         \E argv \in lists :
           input = [argv |-> argv, opts |-> opts]
  /\ output = Pending
  /\ pc = "call"
  /\ heap = ModuleObjects

\* a call of getCLIOpts(argv, opts)
CallGetCLIOpts ==
  /\ op = "getCLIOpts" /\ pc = "call"
  /\ output' = getCLIOpts(input.argv, input.opts)
  /\ pc' = "done"
  /\ UNCHANGED <<op, input>>
  /\ UNCHANGED heap

\* the option parser alone
SpecOpts == InitGetCLIOpts /\ [][CallGetCLIOpts]_vars

OptsDone == op = "getCLIOpts" /\ pc = "done"
InArgv == input.argv
Remainder == output["_"]

\* the letters the flag string declares, and those it declares with a value
DeclaredLetters(opts) == { opts[i] : i \in { j \in 1..Len(opts) : opts[j] # ":" } }
ValueLetters(opts) ==
  { opts[i] : i \in { j \in 1..Len(opts) :
                        opts[j] # ":" /\ j + 1 <= Len(opts) /\ opts[j + 1] = ":" } }
IsFlagToken(opts, t) == Len(t) = 2 /\ t[1] = "-" /\ t[2] \in DeclaredLetters(opts)
IsValueFlagToken(opts, t) == Len(t) = 2 /\ t[1] = "-" /\ t[2] \in ValueLetters(opts)

RECURSIVE IsSubsequence(_, _)
\* a is b with some elements left out
IsSubsequence(a, b) ==
  IF a = <<>> THEN TRUE
  ELSE IF b = <<>> THEN FALSE
  ELSE IF Head(a) = Head(b) THEN IsSubsequence(Tail(a), Tail(b))
  ELSE IsSubsequence(a, Tail(b))

RECURSIVE SelectAt(_, _, _)
\* the elements of s at the indexes of P, in order, from index i on
SelectAt(s, P, i) ==
  IF i > Len(s) THEN <<>>
  ELSE (IF i \in P THEN << s[i] >> ELSE <<>>) \o SelectAt(s, P, i + 1)

Occurrences(s, t) == Cardinality({ i \in 1..Len(s) : s[i] = t })

\* the indexes before the first literal -- of argv
BeforeDashDash(argv) ==
  { i \in 1..Len(argv) : \A j \in 1..i : argv[j] # dashdash }

\* the token at p directly follows a flag token that takes it as its value:
\* a value flag, or a boolean flag that occurs earlier in argv as well
FollowsConsumingFlag(opts, argv, p) ==
  /\ p > 1
  /\ IsFlagToken(opts, argv[p - 1])
  /\ \/ IsValueFlagToken(opts, argv[p - 1])
     \/ \E q \in 1..(p - 2) : argv[q] = argv[p - 1]

\* the indexes of the tokens the amended claim says are kept
KeptIndexes(opts, argv) ==
  { p \in 1..Len(argv) :
      /\ ~IsFlagToken(opts, argv[p])
      /\ argv[p] # dashdash
      /\ argv[p] # s_empty
      /\ ~FollowsConsumingFlag(opts, argv, p) }

BooleanLetters(opts) == DeclaredLetters(opts) \ ValueLetters(opts)
FlagToken(letter) == <<"-", letter>>

\* C22: a boolean flag maps to true exactly when its token occurs before
\* any literal --, however often it occurs; its value is never anything but
\* true or false; and it never consumes the token that follows it: with no
\* value flag in argv, every token that is not a declared flag, not -- and
\* not empty is in the remainder as often as in argv.
C22_BooleanFlagIsTrueIffPresent ==
  OptsDone =>
    /\ \A letter \in BooleanLetters(input.opts) :
         /\ output[letter] \in {true, false}
         /\ output[letter] = true <=>
              \E p \in BeforeDashDash(InArgv) : InArgv[p] = FlagToken(letter)
    /\ (\A p \in 1..Len(InArgv) : ~IsValueFlagToken(input.opts, InArgv[p])) =>
         \A p \in 1..Len(InArgv) :
           (~IsFlagToken(input.opts, InArgv[p]) /\ InArgv[p] # dashdash /\ InArgv[p] # s_empty)
             => Occurrences(Remainder, InArgv[p]) = Occurrences(InArgv, InArgv[p])


\* the indexes after the first literal -- of argv
AfterDashDash(argv) ==
  { i \in 1..Len(argv) : \E j \in 1..(i - 1) : argv[j] = dashdash }

\* C23: no -<letter> token located after the first literal -- is consumed
\* as a flag, whatever the order of the flags in the flag string: its flag
\* keeps the value of an absent flag unless the token also occurs before the
\* --, the token is in the remainder as often as it occurs after the --,
\* and the remainder holds no --.
C23_NothingAfterDashDashIsConsumed ==
  OptsDone =>
    /\ \A p \in AfterDashDash(InArgv) :
         IsFlagToken(input.opts, InArgv[p]) =>
           /\ (\A q \in BeforeDashDash(InArgv) : InArgv[q] # InArgv[p])
                => output[InArgv[p][2]] = InitialOptsTable(input.opts)[InArgv[p][2]]
           /\ Occurrences(Remainder, InArgv[p]) >=
                Occurrences(SelectAt(InArgv, AfterDashDash(InArgv), 1), InArgv[p])
    /\ \A k \in 1..Len(Remainder) : Remainder[k] # dashdash

(***************************************************************************)
(* formatHelpString on every text over a letter, the space, $ and the line *)
(* break, with no indent and the largest, and the two largest limits.      *)
(***************************************************************************)
HelpChars == {"a", " ", "$", "\n"}

InitFormatHelpString ==
  /\ op = "formatHelpString"
  /\ \E indent \in {0, MaxIndent}, limit \in {MaxLimit - 1, MaxLimit} :
       \E texts \in ListsOver(HelpChars, MaxHelpLen) :
         \E helpString \in texts :
           input = [indent |-> indent, limit |-> limit, helpString |-> helpString]
  /\ output = Pending
  /\ pc = "call"
  /\ heap = ModuleObjects

\* a call of formatHelpString(indent, limit, helpString)
CallFormatHelpString ==
  /\ op = "formatHelpString" /\ pc = "call"
  /\ output' = [buf |-> formatHelpString(input.indent, input.limit, input.helpString)]
  /\ pc' = "done"
  /\ UNCHANGED <<op, input>>
  /\ UNCHANGED heap

\* the help formatter alone
SpecHelp == InitFormatHelpString /\ [][CallFormatHelpString]_vars

HelpDone == op = "formatHelpString" /\ pc = "done"
InLines == split(input.helpString, "\n")
\* what the call emitted for each input line; output.buf is these, joined
Emitted == HelpChunks(input.indent, input.limit, input.helpString)
\* the output lines of one emitted piece (its closing line break removed)
OutputLines(chunk) == split(SubSeq(chunk, 1, Len(chunk) - 1), "\n")
WordsOf(line) == SelectSeq(split(line, " "), LAMBDA w : w # <<>>)

StartsWithFourSpaces(line) == Len(line) >= 4 /\ \A i \in 1..4 : line[i] = " "
StartsWithDollar(line) == Len(line) >= 1 /\ line[1] = "$"
FirstWordIsDollar(line) == WordsOf(line) # <<>> /\ WordsOf(line)[1] = <<"$">>

\* C9 as claimed: every output line produced from an input line that does
\* not start with four spaces or with $ is at most limit long, for every
\* word length, indent and limit.
C9_WrappedLinesWithinLimit ==
  HelpDone =>
    \A i \in 1..Len(InLines) :
      (~StartsWithFourSpaces(InLines[i]) /\ ~StartsWithDollar(InLines[i])) =>
        \A k \in 1..Len(OutputLines(Emitted[i])) :
          Len(OutputLines(Emitted[i])[k]) <= input.limit

\* C9 (amended): every output line produced from an input line that does
\* not start with four spaces and whose first word is not $ is at most
\* limit long, provided each word of the line is at most limit - indent - 1
\* long.
C9_ShortWordsWithinLimit ==
  HelpDone =>
    /\ output.buf = Concat(Emitted)
    /\ \A i \in 1..Len(InLines) :
         (/\ ~StartsWithFourSpaces(InLines[i])
          /\ ~FirstWordIsDollar(InLines[i])
          /\ \A w \in 1..Len(WordsOf(InLines[i])) :
               Len(WordsOf(InLines[i])[w]) <= input.limit - input.indent - 1) =>
           \A k \in 1..Len(OutputLines(Emitted[i])) :
             Len(OutputLines(Emitted[i])[k]) <= input.limit

C9_Witness ==
  /\ HelpDone
  /\ Len(InLines) = 1
  /\ Len(WordsOf(InLines[1])) = 3
  /\ ~StartsWithFourSpaces(InLines[1]) /\ ~FirstWordIsDollar(InLines[1])
  /\ \A w \in 1..3 : Len(WordsOf(InLines[1])[w]) <= input.limit - input.indent - 1
  /\ Len(OutputLines(Emitted[1])) >= 2
  /\ output.buf = Emitted[1]

\* C10 as claimed: every input line that starts with four spaces or with $
\* is emitted verbatim as exactly one output line.
C10_LiteralLinesVerbatim ==
  HelpDone =>
    \A i \in 1..Len(InLines) :
      (StartsWithFourSpaces(InLines[i]) \/ StartsWithDollar(InLines[i])) =>
        Emitted[i] = InLines[i] \o <<"\n">>

\* C10 (amended): every input line that holds a word and that starts with
\* four spaces, or whose first word is exactly $, is emitted verbatim as
\* exactly one output line, whatever its length.
C10_LiteralWordLinesVerbatim ==
  HelpDone =>
    /\ output.buf = Concat(Emitted)
    /\ \A i \in 1..Len(InLines) :
         (/\ WordsOf(InLines[i]) # <<>>
          /\ StartsWithFourSpaces(InLines[i]) \/ FirstWordIsDollar(InLines[i])) =>
           Emitted[i] = InLines[i] \o <<"\n">>

C10_Witness ==
  /\ HelpDone
  /\ Len(InLines) = 1
  /\ Len(InLines[1]) > input.limit
  /\ FirstWordIsDollar(InLines[1]) /\ ~StartsWithFourSpaces(InLines[1])
  /\ Len(WordsOf(InLines[1])) >= 2
  /\ output.buf = InLines[1] \o <<"\n">>

(***************************************************************************)
(* loadConfig on the three networks and two selectors that are none, with  *)
(* the file missing, unreadable, malformed, or holding a JSON value: an    *)
(* object over three keys, or a value that is not an object.               *)
(***************************************************************************)
NetworkTypes == {"mainnet", "testnet", "regtest", "livenet", ""}

FileKeys == {"blockstackAPIUrl", "logConfig", "apiKey"}
FileValuesFor(k) ==
  CASE k = "blockstackAPIUrl" -> {String("http://localhost:6270"), null}
    [] k = "logConfig" -> {Object([level |-> String("info")]), String("off")}
    [] OTHER -> {Number(1), String("secret")}
FileValues == UNION { FileValuesFor(k) : k \in FileKeys }

\* the JSON values a well-formed file may hold
JSONObjects ==
  UNION { { Object(f) : f \in { g \in [K -> FileValues] :
                                  \A k \in K : g[k] \in FileValuesFor(k) } } :
          K \in SUBSET FileKeys }
JSONOthers ==
  { null, Number(1), true, String(<<"h", "i">>), Array(<< String("a") >>) }

Files ==
  { [kind |-> "missing"], [kind |-> "unreadable"],
    [kind |-> "text", text |-> [malformed |-> TRUE]] }
  \cup { [kind |-> "text", text |-> [malformed |-> FALSE, value |-> v]] :
           v \in JSONObjects \cup JSONOthers }

InitLoadConfig ==
  /\ op = "loadConfig"
  /\ \E networkType \in NetworkTypes, file \in Files :
       input = [networkType |-> networkType, file |-> file]
  /\ output = Pending
  /\ pc = "call"
  /\ heap = ModuleObjects

\* a call of loadConfig(configFile, networkType)
CallLoadConfig ==
  /\ op = "loadConfig" /\ pc = "call"
  /\ output' = loadConfig(input.file, input.networkType)
  /\ pc' = "done"
  /\ UNCHANGED <<op, input>>
  /\ heap' = loadConfig_Heap(heap, input.file, input.networkType)

\* the configuration loader alone
SpecConfig == InitLoadConfig /\ [][CallLoadConfig]_vars

ConfigDone == op = "loadConfig" /\ pc = "done"
KnownNetwork == input.networkType \in {"mainnet", "testnet", "regtest"}
\* the built-in defaults of the selected network
BuiltIn ==
  CASE input.networkType = "mainnet" -> CONFIG_DEFAULTS
    [] input.networkType = "regtest" -> CONFIG_REGTEST_DEFAULTS
    [] input.networkType = "testnet" -> CONFIG_TESTNET_DEFAULTS
\* the file gives no JSON value: missing, unreadable or not valid JSON
NoJSON == input.file.kind # "text" \/ input.file.text.malformed
HoldsObject == ~NoJSON /\ input.file.text.value.type = "object"
FileObject == input.file.text.value.props

\* C11: for each of mainnet, testnet and regtest, when the file is missing,
\* unreadable or not valid JSON, loadConfig raises no error and returns a
\* map equal to the defaults of that network, key for key.
C11_NoFileGivesDefaults ==
  (ConfigDone /\ KnownNetwork /\ NoJSON) =>
    /\ ~Threw(output)
    /\ DOMAIN output = DOMAIN BuiltIn
    /\ \A k \in DOMAIN BuiltIn : output[k] = BuiltIn[k]

C11_Witness ==
  /\ ConfigDone
  /\ input.networkType = "testnet"
  /\ input.file.kind = "text" /\ input.file.text.malformed
  /\ output = CONFIG_TESTNET_DEFAULTS

\* C12: loadConfig raises an error for every network selector other than
\* mainnet, testnet and regtest, whatever the file, and raises none for
\* these three.
C12_OnlyUnknownNetworkRaises ==
  ConfigDone =>
    /\ ~KnownNetwork => output = [threw |-> "Error", message |-> "Unregognized network"]
    /\ KnownNetwork => ~Threw(output)

C12_Witness ==
  /\ ConfigDone
  /\ input.networkType = "livenet"
  /\ HoldsObject
  /\ Threw(output)

\* C13: when the file holds a JSON object, loadConfig returns the defaults
\* of the network overlaid with it: every key of the file has the value of
\* the file (logConfig whole), every other default key keeps its default,
\* and there is no other key.
C13_ShallowOverlay ==
  (ConfigDone /\ KnownNetwork /\ HoldsObject) =>
    /\ DOMAIN output = DOMAIN BuiltIn \cup DOMAIN FileObject
    /\ \A k \in DOMAIN FileObject : output[k] = FileObject[k]
    /\ \A k \in DOMAIN BuiltIn \ DOMAIN FileObject : output[k] = BuiltIn[k]

C13_Witness ==
  /\ ConfigDone /\ KnownNetwork /\ HoldsObject
  /\ DOMAIN FileObject = {"logConfig", "apiKey"}
  /\ output["logConfig"] = Object([level |-> String("info")])
  /\ output["apiKey"] = String("secret")
  /\ output["blockstackAPIUrl"] = BuiltIn["blockstackAPIUrl"]

(***************************************************************************)
(* The usage text: formatCommandHelpLines on every command with its own    *)
(* items and with lists over a pool of items, makeAllCommandsList, and     *)
(* makeCommandUsageString on the commands, on names that are none and on   *)
(* names every object inherits.                                            *)
(***************************************************************************)
t_blockstack_cli == <<"b","l","o","c","k","s","t","a","c","k","-","c","l","i">>
\* process.argv[1]
ProgramNames == {t_cli, t_blockstack_cli}

ParamPool ==
  { [name |-> s_backup_phrase, realtype |-> s_12_words_or_ciphertext],
    [name |-> s_index, realtype |-> s_integer, pattern |-> "^[0-9]+$"],
    [name |-> s_id_address, realtype |-> s_id_address, pattern |-> "ID_ADDRESS_PATTERN"],
    [realtype |-> s_url] }

UsageNames == Commands \cup {t_nosuch, s_empty, s_constructor, s_toString}

InitUsage ==
  /\ \/ /\ op = "formatCommandHelpLines"
        /\ \/ \E commandName \in Commands \cup {t_nosuch} :
                \E lists \in ListsOver(ParamPool, MaxParams) :
                  \E commandArgs \in lists :
                    input = [commandName |-> commandName, commandArgs |-> Array(commandArgs)]
           \/ \E commandName \in Commands :
                input = [commandName |-> commandName,
                         commandArgs |-> Array(CLI_ARGS.properties[commandName].items)]
     \/ /\ op = "makeAllCommandsList"
        /\ \E argv1 \in ProgramNames : input = [argv1 |-> argv1]
     \/ /\ op = "makeCommandUsageString"
        /\ \E command \in UsageNames, argv1 \in ProgramNames :
             input = [command |-> command, argv1 |-> argv1]
  /\ output = Pending
  /\ pc = "call"
  /\ heap = ModuleObjects

\* a call of formatCommandHelpLines(commandName, commandArgs)
CallFormatCommandHelpLines ==
  /\ op = "formatCommandHelpLines" /\ pc = "call"
  /\ output' = formatCommandHelpLines(input.commandName, input.commandArgs)
  /\ pc' = "done"
  /\ UNCHANGED <<op, input>>
  /\ UNCHANGED heap

\* a call of makeAllCommandsList()
CallMakeAllCommandsList ==
  /\ op = "makeAllCommandsList" /\ pc = "call"
  /\ output' = [text |-> makeAllCommandsList(input.argv1)]
  /\ pc' = "done"
  /\ UNCHANGED <<op, input>>
  /\ heap' = getCommandGroups_Heap(heap)

\* a call of makeCommandUsageString(command)
CallMakeCommandUsageString ==
  /\ op = "makeCommandUsageString" /\ pc = "call"
  /\ output' = makeCommandUsageString(input.command, input.argv1)
  /\ pc' = "done"
  /\ UNCHANGED <<op, input>>
  /\ heap' = getCommandGroups_Heap(heap)

\* the usage text alone
SpecUsage ==
  InitUsage /\ [][\/ CallFormatCommandHelpLines
                  \/ CallMakeAllCommandsList
                  \/ CallMakeCommandUsageString]_vars

UsageStringDone == op = "makeCommandUsageString" /\ pc = "done"
\* the text of the full command index
IndexText == makeAllCommandsList(input.argv1)

endsWith(str, suffix) ==
  Len(str) >= Len(suffix) /\ SubSeq(str, Len(str) - Len(suffix) + 1, Len(str)) = suffix

\* the text is the usage of command c: its name, its synopsis, its help
IsUsageOf(text, c) ==
  /\ startsWith(text, s_Command \o c \o <<"\n">> \o s_Usage \o <<" ", " ">> \o c \o <<" ">>)
  /\ endsWith(text, <<"\n">> \o formatHelpString(2, 78, CLI_ARGS.properties[c].help))

\* C16: makeCommandUsageString called with a name that is not a key of the
\* registry raises no error and returns the text of makeAllCommandsList.
C16_UnknownNameGivesIndex ==
  (UsageStringDone /\ input.command \notin Commands) =>
    (~Threw(output) /\ output.text = IndexText)

\* C17 as claimed: for every key of the registry the text is the usage of
\* that command, and the index is returned only for names that are no key.
C17_EveryCommandHasOwnUsage ==
  UsageStringDone =>
    /\ input.command \in Commands =>
         (~Threw(output) /\ IsUsageOf(output.text, input.command))
    /\ (~Threw(output) /\ output.text = IndexText) => input.command \notin Commands

\* C17 (amended): for every key of the registry other than help the text is
\* the usage of that command and not the index; the index is returned only
\* for help and for names that are no key.
C17_CommandsButHelpHaveOwnUsage ==
  UsageStringDone =>
    /\ (input.command \in Commands /\ input.command # s_help) =>
         /\ ~Threw(output)
         /\ IsUsageOf(output.text, input.command)
         /\ output.text # IndexText
    /\ input.command = s_help => (~Threw(output) /\ output.text = IndexText)
    /\ (~Threw(output) /\ output.text = IndexText) =>
         (input.command = s_help \/ input.command \notin Commands)

C17_Witness ==
  /\ UsageStringDone
  /\ input.command = s_get_owner_keys
  /\ ~Threw(output)
  /\ IsUsageOf(output.text, s_get_owner_keys)
  /\ Len(split(output.text, "\n")) > 7

HelpLinesDone == op = "formatCommandHelpLines" /\ pc = "done"
InParams == input.commandArgs.items
\* the entries of the raw synopsis: its words after the command
RawEntries == Tail(WordsOf(output.raw))
\* the entries of the keyword synopsis: its lines, the pad that follows the
\* last one left out
KwEntries ==
  LET kwPad == [i \in 1..(Len(input.commandName) + 3) |-> " "]
      lines == splitOn(slice(output.kw, Len(input.commandName) + 3), <<"\n">> \o kwPad)
  IN  SubSeq(lines, 1, Len(lines) - 1)
Bracketed(entry) == Len(entry) >= 2 /\ entry[1] = "[" /\ entry[Len(entry)] = "]"
Unbracket(entry) == IF Bracketed(entry) THEN SubSeq(entry, 2, Len(entry) - 1) ELSE entry

\* C18: in the raw and the keyword synopsis the parameters appear in the
\* order given, one entry for each, the entry of the parameter at index i
\* (from 0) is un-bracketed if and only if i < minItems of the command, and
\* the two synopses agree on which parameters are bracketed.
C18_OptionalIffBeyondMinItems ==
  (HelpLinesDone /\ input.commandName \in Commands /\ ~Threw(output)) =>
    /\ Len(RawEntries) = Len(InParams)
    /\ Len(KwEntries) = Len(InParams)
    /\ \A p \in 1..Len(InParams) :
         /\ Unbracket(RawEntries[p]) = toUpperCase(InParams[p].name)
         /\ Unbracket(KwEntries[p]) =
              dashdash \o InParams[p].name \o <<" ">> \o toUpperCase(InParams[p].realtype)
         /\ ~Bracketed(RawEntries[p]) <=> (p - 1 < CLI_ARGS.properties[input.commandName].minItems)
         /\ Bracketed(RawEntries[p]) <=> Bracketed(KwEntries[p])

C18_Witness ==
  /\ HelpLinesDone
  /\ input.commandName = s_register_addr
  /\ InParams = CLI_ARGS.properties[s_register_addr].items
  /\ ~Threw(output)
  /\ Len(RawEntries) = 5
  /\ ~Bracketed(RawEntries[4]) /\ Bracketed(RawEntries[5]) /\ Bracketed(KwEntries[5])

IndexDone == op = "makeAllCommandsList" /\ pc = "done"
IndexLines == split(output.text, "\n")
\* the lines of the index that head a group: two spaces, then the name
IsGroupLine(line) == Len(line) > 2 /\ line[1] = " " /\ line[2] = " " /\ line[3] # " "
GroupLines == { n \in 1..Len(IndexLines) : IsGroupLine(IndexLines[n]) }
\* the name on a group line: what is between the two spaces and the colon
GroupOnLine(n) == SubSeq(IndexLines[n], 3, Len(trim(IndexLines[n])) + 1)
\* the lines of commands under the group line n
BodyLines(n) ==
  { b \in (n + 1)..Len(IndexLines) :
      /\ IndexLines[b] # <<>>
      /\ \A k \in (n + 1)..b : k \notin GroupLines /\ IndexLines[k] # <<>> }
\* the text of the lines of commands under the group line n, line breaks
\* and spaces removed
BodyText(n) ==
  SelectSeq(Concat([k \in 1..Len(IndexLines) |->
                      IF k \in BodyLines(n) THEN IndexLines[k] ELSE <<>>]),
            LAMBDA c : c \notin WhiteSpace)
\* the commands of a group, in the order of the registry
CommandsOf(group) ==
  SelectSeq(CommandOrder, LAMBDA c : CLI_ARGS.properties[c].group = group)

\* C19: the index lists every command exactly once under its group, the
\* groups in lexicographic order, and every two consecutive commands of a
\* group are separated by a comma, also across a line break.
C19_IndexListsCommandsByGroup ==
  IndexDone =>
    /\ { GroupOnLine(n) : n \in GroupLines } =
         { CLI_ARGS.properties[c].group : c \in Commands }
    /\ \A n1, n2 \in GroupLines : n1 < n2 => StringLess(GroupOnLine(n1), GroupOnLine(n2))
    /\ \A n \in GroupLines : BodyText(n) = join(CommandsOf(GroupOnLine(n)), <<",">>)

(***************************************************************************)
(* A session: up to MaxCalls calls of the operations of this layer, one    *)
(* after the other, in one process.  input is process.argv[1], output the  *)
(* calls made so far with what each returned.                              *)
(***************************************************************************)
InitSession ==
  /\ op = "session"
  /\ \E argv1 \in ProgramNames : input = [argv1 |-> argv1]
  /\ output = <<>>
  /\ pc = "call"
  /\ heap = ModuleObjects

\* one more call, with what it returned
Called(name, args, result, after) ==
  /\ op = "session" /\ pc = "call"
  /\ Len(output) < MaxCalls
  /\ output' = Append(output, [call |-> name, args |-> args, result |-> result])
  /\ heap' = after
  /\ UNCHANGED <<op, input, pc>>

SessionMakeCommandUsageString ==
  \E command \in {s_help, s_get_address, s_constructor} :
    Called("makeCommandUsageString", << command >>,
           makeCommandUsageString(command, input.argv1), getCommandGroups_Heap(heap))

SessionMakeAllCommandsList ==
  Called("makeAllCommandsList", <<>>, [text |-> makeAllCommandsList(input.argv1)],
         getCommandGroups_Heap(heap))

SessionMakeUsageString ==
  Called("makeUsageString", <<>>, makeUsageString(input.argv1), getCommandGroups_Heap(heap))

SessionCheckArgs ==
  \E argList \in { <<t_node, t_cli, s_help>>, <<t_node, t_cli, s_get_address, t_key63>> } :
    Called("checkArgs", << argList >>, checkArgs(argList), heap)

SessionGetCommandArgs ==
  \E argsList \in { << t_key64 >>, << Keyword(s_private_key) >> } :
    Called("getCommandArgs", << s_get_address, argsList >>,
           getCommandArgs(s_get_address, argsList), heap)

SessionGetCLIOpts ==
  \E argv \in { << t_d, s_help >>, << t_C >> } :
    Called("getCLIOpts", << argv >>, getCLIOpts(argv, DEFAULT_OPTS), heap)

SessionLoadConfig ==
  \E networkType \in {"testnet", "livenet"} :
    Called("loadConfig", << networkType >>, loadConfig([kind |-> "missing"], networkType),
           loadConfig_Heap(heap, [kind |-> "missing"], networkType))

SpecSession ==
  InitSession /\ [][\/ SessionMakeCommandUsageString
                    \/ SessionMakeAllCommandsList
                    \/ SessionMakeUsageString
                    \/ SessionCheckArgs
                    \/ SessionGetCommandArgs
                    \/ SessionGetCLIOpts
                    \/ SessionLoadConfig]_vars

InSession == op = "session"
UsageCalls == { n \in 1..Len(output) : output[n].call = "makeCommandUsageString" }

OverlayFile(props) == [kind |-> "text", text |-> [malformed |-> FALSE, value |-> Object(props)]]
CallNetworkTypes == {"mainnet", "testnet", "livenet"}
CallFiles ==
  { [kind |-> "missing"],
    OverlayFile([blockstackAPIUrl |-> String("http://localhost:6270")]),
    OverlayFile([apiKey |-> String("secret"), logConfig |-> Object([level |-> String("info")])]),
    [kind |-> "text", text |-> [malformed |-> FALSE, value |-> String(<<"h", "i">>)]] }

InitLoadConfigCalls ==
  /\ op = "loadConfig calls"
  /\ input = [configFile |-> "config.json"]
  /\ output = <<>>
  /\ pc = "call"
  /\ heap = ModuleObjects

\* one more call of loadConfig(configFile, networkType)
AgainLoadConfig ==
  /\ op = "loadConfig calls" /\ pc = "call"
  /\ Len(output) < MaxCalls
  /\ \E networkType \in CallNetworkTypes, file \in CallFiles :
       /\ output' = Append(output, [networkType |-> networkType, file |-> file,
                                    result |-> loadConfig_From(heap, file, networkType)])
       /\ heap' = loadConfig_Heap(heap, file, networkType)
  /\ UNCHANGED <<op, input, pc>>

SpecConfigCalls == InitLoadConfigCalls /\ [][AgainLoadConfig]_vars

InConfigCalls == op = "loadConfig calls"
\* the keys of the object the file of a call holds
FileKeysOf(file) ==
  IF file.kind = "text" /\ ~file.text.malformed THEN DOMAIN OwnProperties(file.text.value)
  ELSE {}

\* C29: successive calls of loadConfig are independent: the maps of
\* defaults hold after every call what they held at the start; a call on a
\* missing file returns the defaults of its network whatever the calls
\* before it; and the result of a call holds no key but those of the
\* defaults and of its own file.
C29_CallsAreIndependent ==
  InConfigCalls =>
    /\ \A name \in {"CONFIG_DEFAULTS", "CONFIG_REGTEST_DEFAULTS", "CONFIG_TESTNET_DEFAULTS",
                    "LOG_CONFIG_DEFAULTS"} : heap[name] = ModuleObjects[name]
    /\ \A n \in 1..Len(output) :
         IsNetworkType(output[n].networkType) =>
           LET defaults == ModuleObjects[DefaultsName(output[n].networkType)]
           IN  /\ output[n].file.kind = "missing" => output[n].result = defaults
               /\ DOMAIN output[n].result = DOMAIN defaults \cup FileKeysOf(output[n].file)
               /\ \A k \in DOMAIN defaults \ FileKeysOf(output[n].file) :
                    output[n].result[k] = defaults[k]

C29_Witness ==
  /\ InConfigCalls
  /\ Len(output) = 2
  /\ output[1].networkType = "mainnet" /\ output[2].networkType = "mainnet"
  /\ FileKeysOf(output[1].file) = {"apiKey", "logConfig"}
  /\ output[1].result["apiKey"] = String("secret")
  /\ output[2].file.kind = "missing"
  /\ output[2].result = CONFIG_DEFAULTS

\* C21: the registry is never modified: after any sequence of calls of the
\* operations of this layer, CLI_ARGS.properties holds the commands it held
\* at the start, each with the items, arity bounds, group and help (and
\* nothing else) it had at the start.
C21_RegistryNeverModified ==
  InSession =>
    /\ DOMAIN heap.CLI_ARGS = Commands
    /\ \A command \in Commands : heap.CLI_ARGS[command] = CLI_ARGS.properties[command]

C21_Witness ==
  /\ InSession
  /\ Len(output) = 3
  /\ output[1].call = "makeUsageString" /\ ~Threw(output[1].result)
  /\ output[2].call = "getCommandArgs" /\ output[2].result.status
  /\ output[3].call = "checkArgs" /\ output[3].result.success
  /\ heap.CLI_ARGS = CLI_ARGS.properties

Init ==
  \/ InitGetCommandArgs
  \/ InitCheckArgs
  \/ InitGetCLIOpts
  \/ InitFormatHelpString
  \/ InitLoadConfig
  \/ InitUsage
  \/ InitSession
  \/ InitLoadConfigCalls

Next ==
  \/ CallGetCommandArgs
  \/ CallCheckArgs
  \/ CallGetCLIOpts
  \/ CallFormatHelpString
  \/ CallLoadConfig
  \/ CallFormatCommandHelpLines
  \/ CallMakeAllCommandsList
  \/ CallMakeCommandUsageString
  \/ SessionMakeCommandUsageString
  \/ SessionMakeAllCommandsList
  \/ SessionMakeUsageString
  \/ SessionCheckArgs
  \/ SessionGetCommandArgs
  \/ SessionGetCLIOpts
  \/ SessionLoadConfig
  \/ AgainLoadConfig

Spec == Init /\ [][Next]_vars

====
